---- MODULE Spec2Model ----
(***************************************************************************)
(* A model of jellycli: the credential manager (src/auth/credentials.rs),  *)
(* the request paths of the service (src/client/service.rs) and the SSE    *)
(* decoding of the vendor stream (src/client/gemini.rs).                   *)
(*                                                                         *)
(* Rust values are written as follows.  Option<T> is a sequence of length  *)
(* 0 (None) or 1 (Some(v)).  A file name is the sequence of its bytes, so  *)
(* that Vec<PathBuf>::sort() can be modelled as the byte-wise              *)
(* lexicographic order it is.  Vec indices are 0-based as in the source;   *)
(* TLA+ sequences are 1-based, hence files[i + 1].                         *)
(***************************************************************************)
EXTENDS Integers, Sequences, FiniteSets, TLC

VARIABLES
    \* the file system
    credentials_dir,      \* names of the entries of the credentials directory
    content,              \* what load_credentials_from_file finds in each credential file
    state_file,           \* Option<text of creds_state.toml>
    \* struct CredentialManager
    credential_states,    \* HashMap<String, CredentialState>
    credential_files,     \* Vec<PathBuf>, the eligible list
    current_index,
    call_count,
    calls_per_rotation,
    max_retries,
    \* observation of the last manager call: its name, arguments, the manager
    \* fields before it, its return value and the files it tried to load
    last,
    \* one client request on its way through GeminiCliService::chat_completion
    req,
    \* the vendor stream of a streaming request and the task that reads it
    sse,
    \* the RwLock around the manager (its write holder) and the request tasks
    \* that contend for it
    rwlock,
    task,
    \* the HTTP front: the password of CONFIG and the request being answered
    api,
    \* a request under conversion: the input and output of the converters
    conv,
    \* the credential files that served the logical requests so far, in order
    served,
    \* one call of GeminiApiClient::onboard_user and what the vendor answered it
    onboard

mgr_vars == <<credential_states, credential_files, current_index, call_count,
              calls_per_rotation, max_retries>>
fs_vars == <<credentials_dir, content, state_file>>
lock_vars == <<rwlock, task>>
io_vars == <<api, conv, served, onboard>>

----------------------------------------------------------------------------
(* Bounds of the model *)

\* number of credential files that may exist in the directory
NumCredFiles == 3
\* number of names record_error and record_success are called with
NumStateKeys == 2
\* the configured calls_per_rotation is drawn from 0..MaxCallsPerRotation
MaxCallsPerRotation == 2
\* the configured max_retries is drawn from 0..MaxRetries
MaxRetries == 3
\* increment_call_count is not applied beyond this value of call_count
MaxCallCount == 3
\* number of credential files in the directory of the service
NumServiceFiles == 2
\* the service's max_retries is drawn from 0..MaxServiceRetries
MaxServiceRetries == 2
\* number of logical requests a rotating manager is followed through
MaxServed == 5
\* a vendor stream is at most this many SSE events
MaxStreamEvents == 2
\* number of requests served concurrently
NumTasks == 2
\* the onboarding poll is followed through this many answers of the vendor
MaxPolls == 4

----------------------------------------------------------------------------
(* Values *)

None == <<>>
Some(v) == <<v>>

\* no call of onboard_user is in progress
NoOnboard == [pc |-> "idle", answers |-> <<>>, ret |-> None]

\* ".json" and "json" as bytes
DotJson == <<46, 106, 115, 111, 110>>
JsonExt == <<106, 115, 111, 110>>

\* credentials_dir.join("creds_state.toml"): the state file lives in the
\* credentials directory itself
StateFileName == <<99, 114, 101, 100, 115, 95, 115, 116, 97, 116, 101, 46, 116, 111, 109, 108>>

\* The names credential files are given, in the order they are dropped into
\* the directory: "b.json", "a.json", "ab.json", "a-1.json", "c.json".
CredPool == << <<98>> \o DotJson, <<97>> \o DotJson, <<97, 98>> \o DotJson,
               <<97, 45, 49>> \o DotJson, <<99>> \o DotJson >>

CredNames == {CredPool[k] : k \in 1..NumCredFiles}

\* HTTP status codes the service records (400 and 500)
StatusCodes == {400, 500}

\* Utc::now(): the source only stores the instant (it is never read back,
\* compared or computed with), so one value stands for every instant
Times == {1}

\* load_credentials_from_file: Ok(Some(..)), Ok(None) (empty refresh token),
\* Err(..) (unreadable or unparsable file)
LoadOutcomes == {"ok", "empty_refresh_token", "unreadable"}
\* the same, and a loadable file that has no project_id
FileContents == LoadOutcomes \cup {"ok_no_project"}

\* #[derive(Default)] CredentialState
DefaultCredentialState == [error_codes |-> <<>>, disabled |-> FALSE, last_success |-> None]

Contains(seq, x) == \E i \in 1..Len(seq) : seq[i] = x

Min(a, b) == IF a <= b THEN a ELSE b

----------------------------------------------------------------------------
(* File names *)

\* Ord of two paths of one directory: byte-wise lexicographic on the name
LexLess(a, b) ==
    \E i \in 1..(Min(Len(a), Len(b)) + 1) :
        /\ \A j \in 1..(i - 1) : a[j] = b[j]
        /\ \/ i > Len(a) /\ i <= Len(b)
           \/ i <= Len(a) /\ i <= Len(b) /\ a[i] < b[i]

\* Path::extension: the part after the last '.', None when the name has no
\* '.' or only a leading one
Extension(name) ==
    LET dots == {i \in 1..Len(name) : name[i] = 46}
        lastDot == IF dots = {} THEN 0 ELSE CHOOSE i \in dots : \A j \in dots : j <= i
    IN IF lastDot <= 1 THEN None ELSE Some(SubSeq(name, lastDot + 1, Len(name)))

RECURSIVE SortFiles(_)
\* files.sort()
SortFiles(S) ==
    IF S = {} THEN <<>>
    ELSE LET least == CHOOSE x \in S : \A y \in S \ {x} : LexLess(x, y)
         IN <<least>> \o SortFiles(S \ {least})

----------------------------------------------------------------------------
(* The state map and its file *)

IsCredentialDisabled(states, filename) ==
    IF filename \in DOMAIN states THEN states[filename].disabled ELSE FALSE

\* get_credential_state: entry(filename).or_default()
GetCredentialState(states, filename) ==
    IF filename \in DOMAIN states THEN states
    ELSE states @@ (filename :> DefaultCredentialState)

\* toml::to_string of the map: one table per key; a field that is None is
\* left out of its table
TomlToString(states) ==
    {[key |-> k,
      fields |-> {<<"error_codes", states[k].error_codes>>,
                  <<"disabled", states[k].disabled>>}
                 \cup (IF states[k].last_success = None THEN {}
                       ELSE {<<"last_success", states[k].last_success[1]>>})]
     : k \in DOMAIN states}

FieldOf(table, name) == {p[2] : p \in {q \in table.fields : q[1] = name}}

\* toml::from_str into HashMap<String, CredentialState>: a missing Option
\* field is None
TomlFromStr(text) ==
    [k \in {t.key : t \in text} |->
        LET t == CHOOSE t \in text : t.key = k
        IN [error_codes |-> CHOOSE v \in FieldOf(t, "error_codes") : TRUE,
            disabled |-> CHOOSE v \in FieldOf(t, "disabled") : TRUE,
            last_success |-> IF FieldOf(t, "last_success") = {} THEN None
                             ELSE Some(CHOOSE v \in FieldOf(t, "last_success") : TRUE)]]

\* load_states: the map read from the state file, the map as it is when the
\* file does not exist
LoadStates(states, file) ==
    IF file = None THEN states ELSE TomlFromStr(file[1])

\* mutant: the error codes are not written
SaveStates_WithoutErrorCodes(states) ==
    Some(TomlToString([k \in DOMAIN states |-> [states[k] EXCEPT !.error_codes = <<>>]]))

\* save_states: the new content of the state file
SaveStates(states) == Some(TomlToString(states))

\* mutant: the entries are kept in the order read_dir gives them (here the
\* order the files were created in), files.sort() left out
DiscoverCredentialFiles_Unsorted(dir, states) ==
    LET keep == {f \in dir : Extension(f) = Some(JsonExt) /\ ~IsCredentialDisabled(states, f)}
    IN SelectSeq(CredPool, LAMBDA f : f \in keep)

\* discover_credential_files: the new eligible list
DiscoverCredentialFiles(dir, states) ==
    SortFiles({f \in dir : Extension(f) = Some(JsonExt) /\ ~IsCredentialDisabled(states, f)})

\* mutant: a second error code disables the credential
RecordErrorStates_DisablesOnSecond(states, filename, status_code) ==
    LET s == GetCredentialState(states, filename)
        codes == IF Contains(s[filename].error_codes, status_code)
                 THEN s[filename].error_codes
                 ELSE Append(s[filename].error_codes, status_code)
    IN [s EXCEPT ![filename].error_codes = codes,
                 ![filename].disabled = @ \/ Len(codes) >= 2]

\* mutant: the code is pushed without the contains() test
RecordErrorStates_AlwaysPush(states, filename, status_code) ==
    LET s == GetCredentialState(states, filename)
    IN [s EXCEPT ![filename].error_codes = Append(@, status_code)]

\* record_error: the new state map
RecordErrorStates(states, filename, status_code) ==
    LET s == GetCredentialState(states, filename)
    IN [s EXCEPT ![filename].error_codes =
            IF Contains(@, status_code) THEN @ ELSE Append(@, status_code)]

\* mutant: the error sets of all credentials are cleared
RecordSuccessStates_ClearsAll(states, filename, now) ==
    LET s == GetCredentialState(states, filename)
    IN [k \in DOMAIN s |->
          IF k = filename
          THEN [s[k] EXCEPT !.error_codes = <<>>, !.last_success = Some(now)]
          ELSE [s[k] EXCEPT !.error_codes = <<>>]]

\* record_success: the new state map
RecordSuccessStates(states, filename, now) ==
    LET s == GetCredentialState(states, filename)
    IN [s EXCEPT ![filename].error_codes = <<>>,
                 ![filename].last_success = Some(now)]

\* set_credential_disabled: the new state map
SetDisabledStates(states, filename, disabled) ==
    LET s == GetCredentialState(states, filename)
    IN [s EXCEPT ![filename].disabled = disabled]

----------------------------------------------------------------------------
(* Credential selection *)

\* Result<Option<(GoogleCredentials, Option<String>)>> of a selection; the
\* credential is named by the file it was loaded from.  "Panic" is the
\* out-of-bounds panic of credential_files[current_index].
Ret(tag, file) == [tag |-> tag, file |-> file]
RetSome(f) == Ret("Some", Some(f))
RetNone == Ret("None", None)
RetErr == Ret("Err", None)
RetPanic == Ret("Panic", None)

\* load_credentials_from_file(file_path)
LoadCredentialsFromFile(f) ==
    IF f \notin credentials_dir THEN RetErr
    ELSE CASE content[f] \in {"ok", "ok_no_project"} -> RetSome(f)
           [] content[f] = "empty_refresh_token" -> RetNone
           [] OTHER -> RetErr

\* creds.project_id of the credential loaded from f
ProjectId(f) == IF content[f] = "ok_no_project" THEN None ELSE Some("project")

\* get_current_file_name
GetCurrentFileName(files, idx) ==
    IF idx < Len(files) THEN Some(files[idx + 1]) ELSE None

\* What a selection leaves behind: the manager fields it writes, its return
\* value, and the files it called load_credentials_from_file on, in order.
Sel(files, idx, cc, ret, loads) ==
    [credential_files |-> files, current_index |-> idx, call_count |-> cc,
     ret |-> ret, loads |-> loads]

\* mutant: the rotation waits one call longer
ShouldRotate_Strict(files, cc) == cc > calls_per_rotation /\ files # <<>>
\* the rotation step of get_current_credentials
ShouldRotate(files, cc) == cc >= calls_per_rotation /\ files # <<>>

\* get_current_credentials
GetCurrentCredentials(files, idx, cc) ==
    LET rot == ShouldRotate(files, cc)
        idx1 == IF rot THEN (idx + 1) % Len(files) ELSE idx
        cc1 == IF rot THEN 0 ELSE cc
        files1 == IF files = <<>>
                  THEN DiscoverCredentialFiles(credentials_dir, credential_states)
                  ELSE files
    IN IF files1 = <<>> THEN Sel(files1, idx1, cc1, RetNone, <<>>)
       ELSE IF idx1 >= Len(files1) THEN Sel(files1, idx1, cc1, RetPanic, <<>>)
       ELSE LET current_file == files1[idx1 + 1]
                r == LoadCredentialsFromFile(current_file)
            IN CASE r.tag = "Some" -> Sel(files1, idx1, cc1, r, <<current_file>>)
                 [] r.tag = "None" ->
                      IF Len(files1) > 1
                      THEN LET idx2 == (idx1 + 1) % Len(files1)
                               next_file == files1[idx2 + 1]
                           IN Sel(files1, idx2, cc1, LoadCredentialsFromFile(next_file),
                                  <<current_file, next_file>>)
                      ELSE Sel(files1, idx1, cc1, RetNone, <<current_file>>)
                 [] OTHER -> Sel(files1, idx1, cc1, RetNone, <<current_file>>)

\* mutant: the final attempt is made whatever the attempts used
FinalAttemptAllowed_Always(attempts, tried_indices, start_index) ==
    start_index \notin tried_indices

\* the guard of the final attempt at start_index in get_credentials_with_retry
FinalAttemptAllowed(attempts, tried_indices, start_index) ==
    attempts < max_retries /\ start_index \notin tried_indices

\* mutant: the loop gives up one attempt early
WalkContinues_OneShort(attempts, tried_indices, files) ==
    attempts + 1 < max_retries /\ Cardinality(tried_indices) < Len(files)

\* the guard of the while loop of get_credentials_with_retry
WalkContinues(attempts, tried_indices, files) ==
    attempts < max_retries /\ Cardinality(tried_indices) < Len(files)

RECURSIVE Walk(_, _, _, _, _, _)
\* the while loop of get_credentials_with_retry ("Try other credentials"):
\* the cursor, tried_indices, attempts and the loads when it ends, and the
\* credential it returned, if any
Walk(files, idx, start_index, tried_indices, attempts, loads) ==
    LET stop == [current_index |-> idx, tried_indices |-> tried_indices,
                 attempts |-> attempts, loads |-> loads, ret |-> RetNone]
    IN IF ~WalkContinues(attempts, tried_indices, files) THEN stop
       ELSE LET idx1 == (idx + 1) % Len(files)
            IN IF idx1 = start_index /\ tried_indices # {}
               THEN [stop EXCEPT !.current_index = idx1]
               ELSE LET current_file == files[idx1 + 1]
                        r == LoadCredentialsFromFile(current_file)
                    IN IF r.tag = "Some"
                       THEN [current_index |-> idx1,
                             tried_indices |-> tried_indices \cup {idx1},
                             attempts |-> attempts,
                             loads |-> Append(loads, current_file), ret |-> r]
                       ELSE Walk(files, idx1, start_index, tried_indices \cup {idx1},
                                 attempts + 1, Append(loads, current_file))

\* get_credentials_with_retry
GetCredentialsWithRetry(files, idx, cc) ==
    LET files0 == IF files = <<>>
                  THEN DiscoverCredentialFiles(credentials_dir, credential_states)
                  ELSE files
    IN IF files0 = <<>> THEN Sel(files0, idx, cc, RetNone, <<>>)
       ELSE LET g == GetCurrentCredentials(files0, idx, cc)
            IN IF g.ret.tag \in {"Some", "Panic"} THEN g
               ELSE LET start_index == g.current_index
                        w == Walk(files0, start_index, start_index, {}, 0, g.loads)
                    IN IF w.ret.tag = "Some"
                       THEN Sel(files0, w.current_index, g.call_count, w.ret, w.loads)
                       ELSE IF FinalAttemptAllowed(w.attempts, w.tried_indices, start_index)
                       THEN LET current_file == files0[start_index + 1]
                                r == LoadCredentialsFromFile(current_file)
                            IN IF r.tag = "Some"
                               THEN Sel(files0, start_index, g.call_count, r,
                                        Append(w.loads, current_file))
                               ELSE Sel(files0, w.current_index, g.call_count, RetNone,
                                        Append(w.loads, current_file))
                       ELSE Sel(files0, w.current_index, g.call_count, RetNone, w.loads)

----------------------------------------------------------------------------
(* The manager's calls as actions *)

\* defaults of AppConfig
DefaultCallsPerRotation == 1
DefaultMaxRetries == 3

EmptyMap == [k \in {} |-> DefaultCredentialState]

ErrorCodesOf(states, filename) ==
    IF filename \in DOMAIN states THEN states[filename].error_codes ELSE <<>>

\* file, arg: the call's arguments; pre_codes, pre_disabled: that file's
\* error_codes and disabled flag before the call; pre: see PreSel
Last(op, file, arg, pre_codes, pre, ret, loads) ==
    [op |-> op, file |-> file, arg |-> arg, pre_codes |-> pre_codes,
     pre_disabled |-> IF file = None THEN FALSE
                      ELSE IsCredentialDisabled(credential_states, file[1]),
     pre |-> pre, ret |-> ret, loads |-> loads]

\* the fields a selection reads, as they are before the call
PreSel == [credential_files |-> credential_files, current_index |-> current_index,
           call_count |-> call_count]
NoPre == [credential_files |-> <<>>, current_index |-> 0, call_count |-> 0]

\* no request is being served
NoRequest == [pc |-> "idle"]
NoStream == [pc |-> "none"]
\* no task holds the lock, no task contends for it
NoTasks == <<>>
\* no HTTP request is being answered, nothing is being converted
NoApi == [pc |-> "none"]
NoConv == [pc |-> "none"]

\* CredentialManager::new
New(cpr, retries) ==
    /\ credential_states = EmptyMap
    /\ credential_files = <<>>
    /\ current_index = 0
    /\ call_count = 0
    /\ calls_per_rotation = cpr
    /\ max_retries = retries
    /\ last = Last("new", None, None, <<>>, NoPre, RetNone, <<>>)
    /\ req = NoRequest
    /\ sse = NoStream
    /\ rwlock = None
    /\ task = NoTasks
    /\ api = NoApi
    /\ conv = NoConv
    /\ served = <<>>
    /\ onboard = NoOnboard

\* initialize on a manager just constructed (a start of the process):
\* create_dir_all, load_states, discover_credential_files
Initialize ==
    LET states == LoadStates(EmptyMap, state_file)
    IN /\ credential_states' = states
       /\ credential_files' = DiscoverCredentialFiles(credentials_dir, states)
       /\ current_index' = 0
       /\ call_count' = 0
       /\ last' = Last("initialize", None, None, <<>>, NoPre, RetNone, <<>>)
       /\ UNCHANGED <<calls_per_rotation, max_retries, fs_vars, req, sse, lock_vars, io_vars>>

\* record_error(filename, status_code)
RecordError(filename, status_code) ==
    LET states == RecordErrorStates(credential_states, filename, status_code)
    IN /\ credential_states' = states
       /\ state_file' = SaveStates(states)
       /\ credentials_dir' = credentials_dir \cup {StateFileName}
       /\ last' = Last("record_error", Some(filename), Some(status_code),
                       ErrorCodesOf(credential_states, filename), NoPre, RetNone, <<>>)
       /\ UNCHANGED <<credential_files, current_index, call_count,
                      calls_per_rotation, max_retries, content, req, sse, lock_vars, io_vars>>

\* record_success(filename), Utc::now() being now
RecordSuccess(filename, now) ==
    LET states == RecordSuccessStates(credential_states, filename, now)
    IN /\ credential_states' = states
       /\ state_file' = SaveStates(states)
       /\ credentials_dir' = credentials_dir \cup {StateFileName}
       /\ last' = Last("record_success", Some(filename), None,
                       ErrorCodesOf(credential_states, filename), NoPre, RetNone, <<>>)
       /\ UNCHANGED <<credential_files, current_index, call_count,
                      calls_per_rotation, max_retries, content, req, sse, lock_vars, io_vars>>

\* set_credential_disabled(filename, disabled)
SetCredentialDisabled(filename, disabled) ==
    LET states == SetDisabledStates(credential_states, filename, disabled)
    IN /\ credential_states' = states
       /\ credential_files' = DiscoverCredentialFiles(credentials_dir, states)
       /\ state_file' = SaveStates(states)
       /\ credentials_dir' = credentials_dir \cup {StateFileName}
       /\ last' = Last("set_credential_disabled", Some(filename), Some(disabled),
                       ErrorCodesOf(credential_states, filename), NoPre, RetNone, <<>>)
       /\ UNCHANGED <<current_index, call_count, calls_per_rotation, max_retries,
                      content, req, sse, lock_vars, io_vars>>

\* increment_call_count
IncrementCallCount ==
    /\ call_count < MaxCallCount
    /\ call_count' = call_count + 1
    /\ last' = Last("increment_call_count", None, None, <<>>, PreSel, RetNone, <<>>)
    /\ UNCHANGED <<credential_states, credential_files, current_index,
                   calls_per_rotation, max_retries, fs_vars, req, sse, lock_vars, io_vars>>

\* mutant: the cursor the selection moved is not stored
ApplySel_CursorNotStored(op, r) ==
    /\ credential_files' = r.credential_files
    /\ current_index' = current_index
    /\ call_count' = r.call_count
    /\ last' = Last(op, None, None, <<>>, PreSel, r.ret, r.loads)
    /\ UNCHANGED <<credential_states, calls_per_rotation, max_retries, fs_vars, req, sse,
                   lock_vars, io_vars>>

\* the manager after a selection r
ApplySel(op, r) ==
    /\ credential_files' = r.credential_files
    /\ current_index' = r.current_index
    /\ call_count' = r.call_count
    /\ last' = Last(op, None, None, <<>>, PreSel, r.ret, r.loads)
    /\ UNCHANGED <<credential_states, calls_per_rotation, max_retries, fs_vars, req, sse,
                   lock_vars, io_vars>>

CallGetCurrentCredentials ==
    ApplySel("get_current_credentials",
             GetCurrentCredentials(credential_files, current_index, call_count))

CallGetCredentialsWithRetry ==
    ApplySel("get_credentials_with_retry",
             GetCredentialsWithRetry(credential_files, current_index, call_count))

\* a credential file is put into the directory
DropFile(f) ==
    /\ f \notin credentials_dir
    /\ credentials_dir' = credentials_dir \cup {f}
    /\ last' = Last("drop_file", Some(f), None, <<>>, NoPre, RetNone, <<>>)
    /\ UNCHANGED <<content, state_file, mgr_vars, req, sse, lock_vars, io_vars>>

vars == <<credentials_dir, content, state_file, credential_states, credential_files,
          current_index, call_count, calls_per_rotation, max_retries, last, req, sse,
          rwlock, task, api, conv, served, onboard>>

----------------------------------------------------------------------------
(* Spec: the state map and its file.  The process starts with credential   *)
(* files in the directory and no state file; the manager is constructed,   *)
(* and then called in any order; Initialize is also a restart of the       *)
(* process, which reads the state file back.                               *)

\* the names record_error, record_success and set_credential_disabled are
\* called with
StateKeys == {CredPool[k] : k \in 1..NumStateKeys}

Init ==
    /\ credentials_dir = CredNames
    /\ content = [f \in CredNames |-> "ok"]
    /\ state_file = None
    /\ New(DefaultCallsPerRotation, DefaultMaxRetries)

Next ==
    \/ Initialize
    \/ \E f \in StateKeys, c \in StatusCodes : RecordError(f, c)
    \/ \E f \in StateKeys, t \in Times : RecordSuccess(f, t)
    \/ \E f \in StateKeys, d \in BOOLEAN : SetCredentialDisabled(f, d)

Spec == Init /\ [][Next]_vars

----------------------------------------------------------------------------
(* SpecDiscovery: the eligible list under set_credential_disabled, with    *)
(* credential files dropped into the directory while the process runs.     *)

InitDiscovery ==
    /\ credentials_dir \in SUBSET CredNames
    /\ content = [f \in CredNames |-> "ok"]
    /\ state_file = None
    /\ New(DefaultCallsPerRotation, DefaultMaxRetries)

NextDiscovery ==
    \/ Initialize
    \/ \E f \in CredNames, d \in BOOLEAN : SetCredentialDisabled(f, d)
    \/ \E f \in CredNames : DropFile(f)

SpecDiscovery == InitDiscovery /\ [][NextDiscovery]_vars

----------------------------------------------------------------------------
(* SpecSelect: credential selection.  The manager has been initialized on  *)
(* a directory of credential files, none disabled; rotation has brought    *)
(* the cursor to any position of the list; any configuration.              *)

InitSelect ==
    /\ credentials_dir \in SUBSET CredNames
    /\ content \in [CredNames -> LoadOutcomes]
    /\ \A f \in CredNames \ credentials_dir : content[f] = "ok"
    /\ state_file = None
    /\ credential_states = EmptyMap
    /\ credential_files = DiscoverCredentialFiles(credentials_dir, EmptyMap)
    /\ current_index \in 0..(IF credential_files = <<>> THEN 0 ELSE Len(credential_files) - 1)
    /\ call_count = 0
    /\ calls_per_rotation \in 0..MaxCallsPerRotation
    /\ max_retries \in 0..MaxRetries
    /\ last = Last("initialize", None, None, <<>>, NoPre, RetNone, <<>>)
    /\ req = NoRequest
    /\ sse = NoStream
    /\ rwlock = None
    /\ task = NoTasks
    /\ api = NoApi
    /\ conv = NoConv
    /\ served = <<>>
    /\ onboard = NoOnboard

NextSelect ==
    \/ IncrementCallCount
    \/ CallGetCurrentCredentials
    \/ CallGetCredentialsWithRetry

SpecSelect == InitSelect /\ [][NextSelect]_vars

----------------------------------------------------------------------------
(* Claims on get_credentials_with_retry (SpecSelect) *)

Range(seq) == {seq[i] : i \in 1..Len(seq)}

Loadable(f) == LoadCredentialsFromFile(f).tag = "Some"

\* the last call was get_credentials_with_retry on a list of two or more
\* files, the cursor inside the list, exactly one file of the list loadable
RetryCallOneLoadable ==
    /\ last.op = "get_credentials_with_retry"
    /\ Len(last.pre.credential_files) >= 2
    /\ last.pre.current_index < Len(last.pre.credential_files)
    /\ Cardinality({f \in Range(last.pre.credential_files) : Loadable(f)}) = 1

TheLoadable == CHOOSE f \in Range(last.pre.credential_files) : Loadable(f)

\* C1 (as stated): with exactly one loadable file among two or more eligible
\* files, get_credentials_with_retry returns that file's credential for
\* every max_retries >= 1.
C1_AsStated ==
    (RetryCallOneLoadable /\ max_retries >= 1) => last.ret = RetSome(TheLoadable)

\* C1 (amended): with exactly one loadable file among n >= 2 eligible files
\* and the cursor inside the list, get_credentials_with_retry returns that
\* file's credential whenever max_retries >= n - 1.
C1_RetryFindsTheLoadable ==
    (RetryCallOneLoadable /\ max_retries >= Len(last.pre.credential_files) - 1)
        => last.ret = RetSome(TheLoadable)

\* C1 witness: such a call that had to go through the initial attempt, its
\* next-file attempt and the forward walk before it found the credential
C1_Witness ==
    /\ RetryCallOneLoadable
    /\ max_retries >= Len(last.pre.credential_files) - 1
    /\ Len(last.loads) >= 3
    /\ last.ret = RetSome(TheLoadable)

\* C2: one call to get_credentials_with_retry attempts to load at most
\* max_retries distinct files (stated for max_retries >= 1).
C2_DistinctLoadsWithinMaxRetries ==
    (last.op = "get_credentials_with_retry" /\ max_retries >= 1)
        => Cardinality(Range(last.loads)) <= max_retries

----------------------------------------------------------------------------
(* Claims on the state map (Spec) *)

NoDuplicates(seq) == \A i, j \in 1..Len(seq) : i # j => seq[i] # seq[j]

ErrorCodesHaveNoDuplicates ==
    \A k \in DOMAIN credential_states : NoDuplicates(credential_states[k].error_codes)

\* a step that is record_error(f, c) again, right after record_error(f, c)
RecordErrorRepeated ==
    /\ last.op = "record_error"
    /\ last'.op = "record_error"
    /\ last'.file = last.file
    /\ last'.arg = last.arg

\* C6: under any sequence of record_error / record_success (and the other
\* calls), error_codes never holds a code twice, and record_error(f, c)
\* right after record_error(f, c) changes neither the state map nor the
\* state file.
C6_RecordErrorIdempotent ==
    /\ []ErrorCodesHaveNoDuplicates
    /\ [][RecordErrorRepeated =>
            /\ credential_states' = credential_states
            /\ state_file' = state_file]_vars

\* C6 witness: record_error has just been called with a code the credential
\* already held, next to another code
C6_Witness ==
    /\ last.op = "record_error"
    /\ Contains(last.pre_codes, last.arg[1])
    /\ Len(last.pre_codes) >= 2
    /\ credential_states[last.file[1]].error_codes = last.pre_codes

\* every credential other than f is as it was: same keys, same error_codes,
\* disabled and last_success
OthersUnchanged(f) ==
    \A g \in (DOMAIN credential_states \cup DOMAIN credential_states') \ {f} :
        /\ g \in DOMAIN credential_states
        /\ g \in DOMAIN credential_states'
        /\ credential_states'[g] = credential_states[g]

\* C7: a record_success(f) step leaves f with an empty error_codes and a
\* last_success, and every other credential's state as it was.
C7_RecordSuccessClears ==
    [][last'.op = "record_success" =>
         LET f == last'.file[1]
         IN /\ f \in DOMAIN credential_states'
            /\ credential_states'[f].error_codes = <<>>
            /\ credential_states'[f].last_success # None
            /\ OthersUnchanged(f)]_vars

\* C7 witness: record_success has just cleared a credential that held two
\* error codes, while another credential holds errors and is disabled
C7_Witness ==
    /\ last.op = "record_success"
    /\ Len(last.pre_codes) >= 2
    /\ credential_states[last.file[1]].error_codes = <<>>
    /\ \E g \in DOMAIN credential_states \ {last.file[1]} :
          /\ credential_states[g].error_codes # <<>>
          /\ credential_states[g].disabled

----------------------------------------------------------------------------
(* Claims on discovery (SpecDiscovery) *)

HasSuffix(name, suffix) ==
    /\ Len(name) >= Len(suffix)
    /\ SubSeq(name, Len(name) - Len(suffix) + 1, Len(name)) = suffix

\* the .json files of the directory whose state is not disabled
EnabledJsonFiles ==
    {f \in credentials_dir :
        /\ HasSuffix(f, DotJson)
        /\ ~(f \in DOMAIN credential_states /\ credential_states[f].disabled)}

Ascending(files) == \A i, j \in 1..Len(files) : i < j => LexLess(files[i], files[j])

\* C8: right after any set_credential_disabled call the eligible list holds
\* exactly the .json files of the directory that are not disabled, once
\* each, in ascending lexicographic order.
C8_EligibleListAfterSetDisabled ==
    last.op = "set_credential_disabled" =>
        /\ Range(credential_files) = EnabledJsonFiles
        /\ Len(credential_files) = Cardinality(EnabledJsonFiles)
        /\ Ascending(credential_files)

\* C8 witness: a credential that was disabled has just been re-enabled and
\* is back in the list, between two others
C8_Witness ==
    /\ last.op = "set_credential_disabled"
    /\ last.arg = Some(FALSE)
    /\ last.pre_disabled
    /\ Len(credential_files) >= 3
    /\ credential_files[2] = last.file[1]

----------------------------------------------------------------------------
(* The request paths of GeminiCliService::chat_completion.  One client     *)
(* request is followed from its start to its response; what an outbound    *)
(* call (token refresh, onboarding, generate-content) answers is chosen    *)
(* at the step that makes the call.                                        *)

\* what the outbound calls of prepare_request(_with_retry) answer
PrepareOutcomes == {"ok", "refresh_failed", "onboard_failed"}

\* record_error / record_success behind `if let Some(file_path) = current_file_name`
ServiceRecordError(states, file_name, status_code) ==
    IF file_name = None THEN states ELSE RecordErrorStates(states, file_name[1], status_code)

ServiceRecordSuccess(states, file_name, now) ==
    IF file_name = None THEN states ELSE RecordSuccessStates(states, file_name[1], now)

\* the manager's state map after a service step, saved when a record_* ran
Persist(states, saved) ==
    /\ credential_states' = states
    /\ state_file' = IF saved THEN SaveStates(states) ELSE state_file
    /\ credentials_dir' = IF saved THEN credentials_dir \cup {StateFileName}
                          ELSE credentials_dir

\* a message content: a JSON string, or any other JSON value (an array of
\* parts)
Str(text) == [kind |-> "string", text |-> text]
Parts == [kind |-> "parts", text |-> ""]

\* the message lists requests are made of
RequestMessages ==
    {<<[role |-> "user", content |-> Str("Hi")]>>,
     <<[role |-> "user", content |-> Str("Hello")]>>,
     <<[role |-> "system", content |-> Str("Hi")]>>,
     <<[role |-> "user", content |-> Parts]>>,
     <<[role |-> "user", content |-> Str("Hi")], [role |-> "user", content |-> Str("Hi")]>>}

\* mutant: the content is compared with another text
IsHealthCheck_OtherText(messages) ==
    /\ Len(messages) = 1
    /\ messages[1].role = "user"
    /\ messages[1].content = Str("Hello")

\* OpenAIChatCompletionRequest::is_health_check
IsHealthCheck(messages) ==
    /\ Len(messages) = 1
    /\ messages[1].role = "user"
    /\ messages[1].content = Str("Hi")

\* OpenAIChatCompletionRequest::is_fake_streaming, and request.stream on the
\* other requests
KindOf(fake_suffix, stream) ==
    IF fake_suffix /\ stream THEN "fake_streaming"
    ELSE IF stream THEN "streaming" ELSE "non_streaming"

\* chat_completion up to the choice of the path: the health check is
\* answered at once; any other request enters its path.  fake_suffix: the
\* model name ends with the fake-streaming suffix.
ChatCompletion(messages, fake_suffix, stream) ==
    /\ req.pc = "idle"
    /\ \E r \in {[pc |-> "prepare", kind |-> KindOf(fake_suffix, stream),
                  messages |-> messages, fake_suffix |-> fake_suffix, stream |-> stream,
                  attempts |-> 0, creds |-> None, file_name |-> None,
                  status |-> None, resp |-> None, body |-> "", log |-> <<>>,
                  selectors |-> {}, increments |-> 0, fail |-> "", events |-> <<>>,
                  stream_ended |-> FALSE]} :
         req' = IF IsHealthCheck(messages)
                THEN [r EXCEPT !.pc = "done", !.kind = "health_check",
                               !.resp = Some(200), !.body = "health_check"]
                ELSE IF r.kind = "fake_streaming" THEN [r EXCEPT !.pc = "fake_log"]
                ELSE r
    /\ UNCHANGED <<mgr_vars, fs_vars, last, sse, lock_vars, conv, served, onboard>>

\* a request arrives at chat_completion
StartRequest(messages, fake_suffix, stream) ==
    /\ ChatCompletion(messages, fake_suffix, stream)
    /\ UNCHANGED <<api>>

\* the selection of a preparation: increment_call_count, then
\* get_credentials_with_retry (prepare_request_with_retry) or
\* get_current_credentials (prepare_request)
PrepareSelection(selector) ==
    IF selector = "get_credentials_with_retry"
    THEN GetCredentialsWithRetry(credential_files, current_index, call_count + 1)
    ELSE GetCurrentCredentials(credential_files, current_index, call_count + 1)

\* where a preparation whose selection was sel fails ("": it does not):
\* ok_or("No credentials available"), refresh_credentials, onboard_user
PrepareFail(sel, outcome) ==
    CASE sel.ret.tag = "Panic" -> "panic"
      [] sel.ret.tag = "None" -> "no_credentials"
      [] sel.ret.tag = "Err" -> "load_error"
      [] outcome = "refresh_failed" -> "refresh"
      [] outcome = "onboard_failed" /\ ProjectId(sel.ret.file[1]) # None -> "onboard"
      [] OTHER -> ""

\* a preparation: the manager after the selection sel; the request is
\* prepared, or has failed with the response err_resp, or its task panicked.
\* increments counts the calls of increment_call_count made for the request.
ApplyPrepare(selector, sel, fail, err_resp) ==
    /\ credential_files' = sel.credential_files
    /\ current_index' = sel.current_index
    /\ call_count' = sel.call_count
    /\ req' = [req EXCEPT
                 !.selectors = @ \cup {selector},
                 !.increments = @ + 1,
                 !.creds = sel.ret.file,
                 !.file_name = GetCurrentFileName(sel.credential_files, sel.current_index),
                 !.fail = fail,
                 !.pc = CASE fail = "" -> "send" [] fail = "panic" -> "panicked"
                          [] OTHER -> "done",
                 !.resp = IF fail \in {"", "panic"} THEN @ ELSE err_resp,
                 !.events = IF fail \notin {"", "panic"} /\ req.kind = "fake_streaming"
                            THEN Append(@, "error") ELSE @]
    /\ UNCHANGED <<credential_states, calls_per_rotation, max_retries, fs_vars, last, sse,
                   lock_vars, io_vars>>

\* chat_completion lines 100-112 (the first preparation: an error is answered
\* 400) and the retry loops' preparation (an error is answered with the
\* error of the failed attempt)
PrepareRequestWithRetry ==
    /\ req.pc \in {"prepare", "retry_prepare"}
    /\ \E sel \in {PrepareSelection("get_credentials_with_retry")},
          outcome \in PrepareOutcomes :
         ApplyPrepare("get_credentials_with_retry", sel, PrepareFail(sel, outcome),
                      IF req.pc = "prepare" THEN Some(400) ELSE req.status)

\* mutant: the loop gives up one failed attempt later
AfterFailedAttempt_OneMore(r, states, status) ==
    /\ Persist(ServiceRecordError(states, r.file_name, status), r.file_name # None)
    /\ req' = IF r.attempts + 1 > max_retries
              THEN [r EXCEPT !.attempts = @ + 1, !.pc = "done", !.resp = Some(status),
                             !.status = Some(status), !.fail = "attempts"]
              ELSE [r EXCEPT !.attempts = @ + 1, !.pc = "retry_prepare",
                             !.status = Some(status)]

\* the Err arm of the retry loops, after handle_*_request returned the
\* error status: attempts += 1, record_error, give up or prepare again
AfterFailedAttempt(r, states, status) ==
    /\ Persist(ServiceRecordError(states, r.file_name, status), r.file_name # None)
    /\ req' = IF r.attempts + 1 >= max_retries
              THEN [r EXCEPT !.attempts = @ + 1, !.pc = "done", !.resp = Some(status),
                             !.status = Some(status), !.fail = "attempts"]
              ELSE [r EXCEPT !.attempts = @ + 1, !.pc = "retry_prepare",
                             !.status = Some(status)]

\* create_error_response: the body of a structured error, answered with
\* the status status_code
CreateErrorResponse(message, error_type, status_code) ==
    [message |-> message, type |-> error_type, code |-> status_code]

\* the error of an attempt by its outcome: project_id.ok_or_else(..) before
\* the vendor call, and the Err arm after it
AttemptError(outcome) ==
    CASE outcome = "no_project" ->
           Some(CreateErrorResponse("No project ID available", "invalid_request_error", 400))
      [] outcome = "vendor_error" ->
           Some(CreateErrorResponse("Request failed", "api_error", 500))
      [] OTHER -> None

\* mutant: the vendor is called without the test of the project id
SendWithRetry_NoProjectTest ==
    /\ req.pc = "send"
    /\ req.kind \in {"non_streaming", "streaming"}
    /\ \E vendor \in {"ok", "error"}, now \in Times :
         LET f == req.creds[1]
             outcome == IF vendor = "ok" THEN "ok" ELSE "vendor_error"
             r == [req EXCEPT !.log = Append(@, [file |-> f, outcome |-> outcome,
                                                 error |-> AttemptError(outcome)])]
         IN CASE outcome = "vendor_error" ->
                   AfterFailedAttempt(r, ServiceRecordError(credential_states, r.file_name, 500),
                                      AttemptError(outcome)[1].code)
              [] outcome = "ok" /\ req.kind = "non_streaming" ->
                   /\ Persist(ServiceRecordSuccess(credential_states, r.file_name, now),
                              r.file_name # None)
                   /\ req' = [r EXCEPT !.pc = "done", !.resp = Some(200)]
              [] OTHER ->
                   /\ Persist(credential_states, FALSE)
                   /\ req' = [r EXCEPT !.pc = "stream_task", !.resp = Some(200)]
    /\ UNCHANGED <<credential_files, current_index, call_count, calls_per_rotation,
                   max_retries, content, last, sse, lock_vars, io_vars>>

\* one turn of handle_non_streaming_request_with_retry or
\* handle_streaming_request_with_retry: handle_non_streaming_request or
\* handle_streaming_request with the prepared credential (the test of its
\* project id, then the vendor call), then the loop's match on its result
SendWithRetry ==
    /\ req.pc = "send"
    /\ req.kind \in {"non_streaming", "streaming"}
    /\ \E vendor \in {"ok", "error"}, now \in Times :
         LET f == req.creds[1]
             outcome == IF ProjectId(f) = None THEN "no_project"
                        ELSE IF vendor = "ok" THEN "ok" ELSE "vendor_error"
             r == [req EXCEPT !.log = Append(@, [file |-> f, outcome |-> outcome,
                                                 error |-> AttemptError(outcome)])]
         IN CASE outcome = "no_project" ->
                   AfterFailedAttempt(r, credential_states, AttemptError(outcome)[1].code)
              [] outcome = "vendor_error" ->
                   AfterFailedAttempt(r, ServiceRecordError(credential_states, r.file_name, 500),
                                      AttemptError(outcome)[1].code)
              [] outcome = "ok" /\ req.kind = "non_streaming" ->
                   /\ Persist(ServiceRecordSuccess(credential_states, r.file_name, now),
                              r.file_name # None)
                   /\ req' = [r EXCEPT !.pc = "done", !.resp = Some(200)]
              [] OTHER ->
                   /\ Persist(credential_states, FALSE)
                   /\ req' = [r EXCEPT !.pc = "stream_task", !.resp = Some(200)]
    /\ UNCHANGED <<credential_files, current_index, call_count, calls_per_rotation,
                   max_retries, content, last, sse, lock_vars, io_vars>>

\* the end of the task spawned by handle_streaming_request, after its loop:
\* [DONE] unless the client is gone, then record_error or record_success
FinishStreamTask(has_error, stream_ended, events, now) ==
    /\ Persist(IF has_error
               THEN ServiceRecordError(credential_states, req.file_name, 500)
               ELSE ServiceRecordSuccess(credential_states, req.file_name, now),
               req.file_name # None)
    /\ req' = [req EXCEPT !.pc = "done",
                          !.events = IF stream_ended THEN events
                                     ELSE Append(events, "[DONE]"),
                          !.stream_ended = stream_ended,
                          !.fail = IF has_error THEN "stream" ELSE ""]
    /\ UNCHANGED <<credential_files, current_index, call_count, calls_per_rotation,
                   max_retries, content, last, lock_vars, io_vars>>

\* the task spawned by handle_streaming_request, start to end: the vendor
\* stream ends, or yields an Err item, or the client is gone when a chunk is
\* sent to it
StreamTask ==
    /\ req.pc = "stream_task"
    /\ sse = NoStream
    /\ \E end \in {"ended", "item_error", "client_gone"}, now \in Times :
         FinishStreamTask(end = "item_error", end = "client_gone",
                          IF end = "item_error" THEN <<"chunk", "error">>
                          ELSE <<"chunk">>, now)
    /\ UNCHANGED sse

\* handle_fake_streaming lines 406-414: get_current_credentials, for the
\* credential id of the log line; the SSE response is then opened
FakeStreamingLog ==
    /\ req.pc = "fake_log"
    /\ \E sel \in {GetCurrentCredentials(credential_files, current_index, call_count)} :
          /\ credential_files' = sel.credential_files
          /\ current_index' = sel.current_index
          /\ call_count' = sel.call_count
          /\ req' = IF sel.ret.tag = "Panic"
                    THEN [req EXCEPT !.pc = "panicked", !.fail = "panic",
                                     !.selectors = @ \cup {"get_current_credentials"}]
                    ELSE [req EXCEPT !.pc = "fake_prepare", !.resp = Some(200),
                                     !.events = <<"heartbeat">>,
                                     !.selectors = @ \cup {"get_current_credentials"}]
    /\ UNCHANGED <<credential_states, calls_per_rotation, max_retries, fs_vars, last, sse,
                   lock_vars, io_vars>>

\* the spawned task of handle_fake_streaming: prepare_request in
\* handle_non_streaming_request_internal; its error is sent as an error event
FakeStreamingPrepare ==
    /\ req.pc = "fake_prepare"
    /\ \E sel \in {PrepareSelection("get_current_credentials")},
          outcome \in PrepareOutcomes :
         ApplyPrepare("get_current_credentials", sel, PrepareFail(sel, outcome), req.resp)

\* the choices of a successful vendor response, by their message content:
\* the vendor's `candidates` defaults to the empty list, and
\* gemini_to_openai_response makes one choice with string content of each
VendorChoices == {<<>>, <<"text">>, <<"">>}

\* the events the spawned task sends after a successful internal call: the
\* content chunk (finish_reason stop) when the first choice has string
\* content, then [DONE]
FakeStreamingEvents(choices) ==
    (IF choices # <<>> THEN <<"content">> ELSE <<>>) \o <<"[DONE]">>

\* the error event of the spawned task: the message of the error of
\* handle_non_streaming_request_internal, always as api_error with code 500
FakeStreamingError(outcome) ==
    IF AttemptError(outcome) = None THEN None
    ELSE Some([AttemptError(outcome)[1] EXCEPT !.type = "api_error", !.code = 500])

\* the rest of handle_non_streaming_request_internal and of the spawned task
FakeStreamingSend ==
    /\ req.pc = "send"
    /\ req.kind = "fake_streaming"
    /\ \E vendor \in {"ok", "error"}, choices \in VendorChoices, now \in Times :
         LET f == req.creds[1]
             outcome == IF ProjectId(f) = None THEN "no_project"
                        ELSE IF vendor = "ok" THEN "ok" ELSE "vendor_error"
             r == [req EXCEPT !.log = Append(@, [file |-> f, outcome |-> outcome,
                                                 error |-> FakeStreamingError(outcome)]),
                              !.pc = "done"]
         IN IF outcome = "ok"
            THEN /\ Persist(ServiceRecordSuccess(credential_states, r.file_name, now),
                            r.file_name # None)
                 /\ req' = [r EXCEPT !.events = @ \o FakeStreamingEvents(choices)]
            ELSE /\ Persist(credential_states, FALSE)
                 /\ req' = [r EXCEPT !.events = Append(@, "error"), !.fail = outcome]
    /\ UNCHANGED <<credential_files, current_index, call_count, calls_per_rotation,
                   max_retries, content, last, sse, lock_vars, io_vars>>

----------------------------------------------------------------------------
(* SpecService: the service has been initialized on a directory of         *)
(* credential files and has prepared requests, which left the cursor and   *)
(* call_count anywhere rotation brings them (a preparation that fails in   *)
(* refresh_credentials moves both and records nothing); one more request   *)
(* arrives.                                                                *)

ServiceNames == {CredPool[k] : k \in 1..NumServiceFiles}

InitService ==
    /\ credentials_dir \in SUBSET ServiceNames
    /\ content \in [CredNames -> FileContents]
    /\ \A f \in CredNames \ credentials_dir : content[f] = "ok"
    /\ state_file = None
    /\ credential_states = EmptyMap
    /\ credential_files = DiscoverCredentialFiles(credentials_dir, EmptyMap)
    /\ current_index \in 0..(IF credential_files = <<>> THEN 0 ELSE Len(credential_files) - 1)
    /\ calls_per_rotation \in 1..MaxCallsPerRotation
    /\ call_count \in 0..(calls_per_rotation - 1)
    /\ max_retries \in 0..MaxServiceRetries
    /\ last = Last("initialize", None, None, <<>>, NoPre, RetNone, <<>>)
    /\ req = NoRequest
    /\ sse = NoStream
    /\ rwlock = None
    /\ task = NoTasks
    /\ api = NoApi
    /\ conv = NoConv
    /\ served = <<>>
    /\ onboard = NoOnboard

NextService ==
    \/ \E messages \in RequestMessages, fake_suffix \in BOOLEAN, stream \in BOOLEAN :
         StartRequest(messages, fake_suffix, stream)
    \/ PrepareRequestWithRetry
    \/ SendWithRetry
    \/ StreamTask
    \/ FakeStreamingLog
    \/ FakeStreamingPrepare
    \/ FakeStreamingSend

SpecService == InitService /\ [][NextService]_vars

----------------------------------------------------------------------------
(* Claims on the request paths (SpecService) *)

\* the eligible credentials other than f that load and have a project id
OtherUsable(f) == {g \in Range(credential_files) \ {f} : content[g] = "ok"}

\* C3: when the vendor call of an attempt made with credential A fails,
\* attempts remain and another eligible, loadable credential exists, the next
\* attempt of the same request is made with a credential other than A, for
\* every calls_per_rotation >= 1.  (The request's log holds its attempts in
\* order; a next entry exists exactly when attempts remained.)
C3_NextAttemptUsesAnotherCredential ==
    req.pc # "idle" =>
        \A i \in 1..(Len(req.log) - 1) :
            (req.log[i].outcome = "vendor_error" /\ OtherUsable(req.log[i].file) # {})
                => req.log[i + 1].file # req.log[i].file

\* C9: every request path that serves a chat completion obtains its
\* credential through get_credentials_with_retry and never calls plain
\* get_current_credentials.
C9_RequestPathsUseRetrySelector ==
    req.pc # "idle" => req.selectors \subseteq {"get_credentials_with_retry"}

\* C10: a request whose token refresh failed is not answered with that
\* failure while attempts remain and another eligible credential exists.
C10_RefreshFailureIsRetried ==
    ~ /\ req.pc = "done"
      /\ req.kind \in {"non_streaming", "streaming"}
      /\ req.fail = "refresh"
      /\ req.attempts < max_retries
      /\ OtherUsable(req.creds[1]) # {}

----------------------------------------------------------------------------
(* The vendor's SSE byte stream, as send_streaming_request decodes it and  *)
(* as the task of handle_streaming_request consumes it.  A byte is a       *)
(* one-character string; the transport delivers the stream in chunks of    *)
(* any lengths.                                                            *)

Whitespace == {" ", "\n"}
DataPrefix == <<"d", "a", "t", "a", ":", " ">>
DoneSentinel == <<"[", "D", "O", "N", "E", "]">>
\* the JSON texts that can be written with the bytes of these streams
JsonTexts == {<<"{", "}">>, <<"[", "]">>}

\* one SSE event carrying the JSON text {} and the [DONE] event
DataLine == DataPrefix \o <<"{", "}", "\n", "\n">>
DoneLine == DataPrefix \o DoneSentinel \o <<"\n", "\n">>

\* str::strip_prefix("data: ")
StripPrefix(text) ==
    IF Len(text) >= Len(DataPrefix) /\ SubSeq(text, 1, Len(DataPrefix)) = DataPrefix
    THEN Some(SubSeq(text, Len(DataPrefix) + 1, Len(text)))
    ELSE None

\* str::trim
RECURSIVE TrimStart(_)
TrimStart(text) ==
    IF text # <<>> /\ Head(text) \in Whitespace THEN TrimStart(Tail(text)) ELSE text

RECURSIVE TrimEnd(_)
TrimEnd(text) ==
    IF text # <<>> /\ text[Len(text)] \in Whitespace
    THEN TrimEnd(SubSeq(text, 1, Len(text) - 1)) ELSE text

Trim(text) == TrimEnd(TrimStart(text))

\* serde_json::from_str::<Value> succeeds (whitespace around the value is
\* allowed); the value then gives a GeminiStreamChunk, empty if it does not
\* deserialize
FromStrOk(text) == Trim(text) \in JsonTexts

OkItem == [tag |-> "Ok", msg |-> "chunk"]
ErrItem(msg) == [tag |-> "Err", msg |-> msg]

\* the closure of stream.map in send_streaming_request, on Ok(bytes)
DecodeChunk(text) ==
    IF StripPrefix(text) # None
    THEN LET json_str == Trim(StripPrefix(text)[1])
         IN IF json_str = DoneSentinel THEN ErrItem("Stream complete")
            ELSE IF FromStrOk(json_str) THEN OkItem
            ELSE ErrItem("Parse error")
    ELSE IF FromStrOk(text) THEN OkItem ELSE ErrItem("Non-JSON chunk")

\* mutant: the loop goes on after an Err item
ConsumeItem_NoBreak(item, rest, client_open) ==
    sse' = [sse EXCEPT
              !.wire = rest,
              !.items = Append(@, item),
              !.has_error = @ \/ item.tag = "Err",
              !.stream_ended = item.tag = "Ok" /\ ~client_open,
              !.events = CASE item.tag = "Err" -> Append(@, "error")
                           [] client_open -> Append(@, "chunk")
                           [] OTHER -> @,
              !.pc = IF item.tag = "Err" \/ client_open THEN "loop" ELSE "after_loop"]

\* one turn of the task's loop on the item the stream yields: an Ok item is
\* sent to the client as a chunk (the client may be gone), an Err item sets
\* has_error, is sent as an error event and ends the loop
ConsumeItem(item, rest, client_open) ==
    sse' = [sse EXCEPT
              !.wire = rest,
              !.items = Append(@, item),
              !.has_error = item.tag = "Err",
              !.stream_ended = item.tag = "Ok" /\ ~client_open,
              !.events = CASE item.tag = "Err" -> Append(@, "error")
                           [] client_open -> Append(@, "chunk")
                           [] OTHER -> @,
              !.pc = IF item.tag = "Ok" /\ client_open THEN "loop" ELSE "after_loop"]

\* stream.next() yields the decoding of the next transport chunk
StreamNextChunk ==
    /\ req.pc = "stream_task"
    /\ sse.pc = "loop"
    /\ \E k \in 1..Len(sse.wire), client_open \in BOOLEAN :
         ConsumeItem(DecodeChunk(SubSeq(sse.wire, 1, k)),
                     SubSeq(sse.wire, k + 1, Len(sse.wire)), client_open)
    /\ UNCHANGED <<mgr_vars, fs_vars, last, req, lock_vars, io_vars>>

\* stream.next() yields a transport error
StreamTransportError ==
    /\ req.pc = "stream_task"
    /\ sse.pc = "loop"
    /\ sse' = [sse EXCEPT !.items = Append(@, ErrItem("Stream error")),
                          !.has_error = TRUE, !.transport_error = TRUE,
                          !.events = Append(@, "error"), !.pc = "after_loop"]
    /\ UNCHANGED <<mgr_vars, fs_vars, last, req, lock_vars, io_vars>>

\* stream.next() yields None: the vendor closed the stream
StreamEnd ==
    /\ req.pc = "stream_task"
    /\ sse.pc = "loop"
    /\ sse.wire = <<>>
    /\ sse' = [sse EXCEPT !.pc = "after_loop"]
    /\ UNCHANGED <<mgr_vars, fs_vars, last, req, lock_vars, io_vars>>

\* the task after its loop
StreamTaskFinish ==
    /\ req.pc = "stream_task"
    /\ sse.pc = "after_loop"
    /\ \E now \in Times :
         FinishStreamTask(sse.has_error, sse.stream_ended, sse.events, now)
    /\ sse' = [sse EXCEPT !.pc = "finished"]

----------------------------------------------------------------------------
(* SpecStream: a streaming request has been prepared with the only         *)
(* credential, the vendor has answered 200 and the task is spawned; the    *)
(* vendor stream is up to MaxStreamEvents SSE events.                      *)

RECURSIVE Concat(_)
Concat(lines) == IF lines = <<>> THEN <<>> ELSE Head(lines) \o Concat(Tail(lines))

VendorStreams ==
    {Concat(lines) : lines \in UNION {[1..n -> {DataLine, DoneLine}] : n \in 1..MaxStreamEvents}}

StreamFile == CredPool[1]

InitStream ==
    /\ credentials_dir = {StreamFile}
    /\ content = [f \in CredNames |-> "ok"]
    /\ state_file = None
    /\ credential_states = EmptyMap
    /\ credential_files = <<StreamFile>>
    /\ current_index = 0
    /\ call_count = 0
    /\ calls_per_rotation = DefaultCallsPerRotation
    /\ max_retries = DefaultMaxRetries
    /\ last = Last("initialize", None, None, <<>>, NoPre, RetNone, <<>>)
    /\ req = [pc |-> "stream_task", kind |-> "streaming",
              messages |-> <<[role |-> "user", content |-> Str("Hello")]>>,
              fake_suffix |-> FALSE, stream |-> TRUE, body |-> "", attempts |-> 0,
              creds |-> Some(StreamFile), file_name |-> Some(StreamFile),
              status |-> None, resp |-> Some(200),
              log |-> <<[file |-> StreamFile, outcome |-> "ok", error |-> None]>>,
              selectors |-> {"get_credentials_with_retry"}, increments |-> 1,
              fail |-> "", events |-> <<>>, stream_ended |-> FALSE]
    /\ rwlock = None
    /\ task = NoTasks
    /\ api = NoApi
    /\ conv = NoConv
    /\ served = <<>>
    /\ onboard = NoOnboard
    /\ \E stream \in VendorStreams :
         sse = [pc |-> "loop", stream |-> stream, wire |-> stream, items |-> <<>>,
                has_error |-> FALSE, stream_ended |-> FALSE,
                transport_error |-> FALSE, events |-> <<>>]

NextStream ==
    \/ StreamNextChunk
    \/ StreamTransportError
    \/ StreamEnd
    \/ StreamTaskFinish

SpecStream == InitStream /\ [][NextStream]_vars

----------------------------------------------------------------------------
(* Claims on the streaming decode (SpecStream) *)

\* the loop has consumed the whole stream, or stopped at an Err item, with
\* the client connected and no transport error
StreamRead ==
    /\ sse.pc \in {"after_loop", "finished"}
    /\ ~sse.stream_ended
    /\ ~sse.transport_error

\* C4: however the vendor's byte stream is split into transport chunks, the
\* sequence of decoded items is the one decoded when the whole stream arrives
\* as one chunk; a cut line is completed by later bytes and is not turned
\* into an error.
C4_DecodingIndependentOfChunking ==
    StreamRead => sse.items = <<DecodeChunk(sse.stream)>>

\* a transport chunk carrying the [DONE] sentinel has been decoded
DoneDelivered ==
    \E i \in 1..Len(sse.items) : sse.items[i] = ErrItem("Stream complete")

\* C5: when the vendor stream delivers [DONE], the event sequence ends
\* normally: no error event is produced for it and the request counts as
\* completed without error (record_success, not record_error).
C5_DoneEndsStreamWithoutError ==
    (sse.pc = "finished" /\ DoneDelivered /\ ~sse.transport_error) =>
        /\ "error" \notin Range(req.events)
        /\ req.fail = ""
        /\ 500 \notin Range(ErrorCodesOf(credential_states, StreamFile))

----------------------------------------------------------------------------
(* GeminiApiClient::onboard_user (src/client/gemini.rs): loadCodeAssist,   *)
(* then the poll of onboardUser.  What the vendor answers a POST is chosen *)
(* at the step that makes it.                                              *)

\* the answers to a POST: send() fails; a status that is not a success; a
\* success whose body json() cannot parse; a success with a JSON body
TransportError == "transport_error"
NonSuccess == "non_success"
Unparsable == "unparsable"

\* loadCodeAssist: JSON bodies with and without currentTier
LoadAnswers == {TransportError, NonSuccess, Unparsable, "current_tier", "no_current_tier"}

\* onboardUser: JSON bodies whose `done` is true, is false, is missing, or
\* is not a bool; get("done").and_then(as_bool).unwrap_or(false) is true for
\* the first only
NotDoneAnswers == {"done_false", "done_missing", "done_not_bool"}
PollAnswers == {TransportError, NonSuccess, Unparsable, "done_true"} \cup NotDoneAnswers

OnboardOk == Some("Ok")
OnboardErr(msg) == Some(msg)

\* onboard_user up to its loop: without an access token nothing is sent
OnboardUser(has_access_token, load) ==
    /\ onboard.pc = "idle"
    /\ onboard' =
         CASE ~has_access_token -> [onboard EXCEPT !.pc = "returned", !.ret = OnboardOk]
           [] load = TransportError ->
                [onboard EXCEPT !.pc = "returned",
                                !.ret = OnboardErr("Failed to load code assist")]
           [] load = NonSuccess ->
                [onboard EXCEPT !.pc = "returned",
                                !.ret = OnboardErr("Load code assist failed with status")]
           [] load = Unparsable ->
                [onboard EXCEPT !.pc = "returned",
                                !.ret = OnboardErr("Failed to parse load response")]
           [] load = "current_tier" ->
                [onboard EXCEPT !.pc = "returned", !.ret = OnboardOk]
           [] OTHER -> [onboard EXCEPT !.pc = "poll"]
    /\ UNCHANGED <<mgr_vars, fs_vars, last, req, sse, lock_vars, api, conv, served>>

\* mutant: the poll gives up after three answers
OnboardPoll_Bounded(answer) ==
    /\ onboard.pc = "poll"
    /\ Len(onboard.answers) < MaxPolls
    /\ \E o \in {[onboard EXCEPT !.answers = Append(@, answer)]} :
         onboard' =
           CASE answer = TransportError ->
                  [o EXCEPT !.pc = "returned", !.ret = OnboardErr("Failed to onboard user")]
             [] answer = NonSuccess ->
                  [o EXCEPT !.pc = "returned", !.ret = OnboardErr("User onboarding failed")]
             [] answer = Unparsable ->
                  [o EXCEPT !.pc = "returned",
                            !.ret = OnboardErr("Failed to parse onboard response")]
             [] answer = "done_true" -> [o EXCEPT !.pc = "returned", !.ret = OnboardOk]
             [] OTHER -> IF Len(o.answers) >= 3
                         THEN [o EXCEPT !.pc = "returned",
                                        !.ret = OnboardErr("User onboarding failed")]
                         ELSE o
    /\ UNCHANGED <<mgr_vars, fs_vars, last, req, sse, lock_vars, api, conv, served>>

\* one turn of the loop: the POST of onboardUser, the checks of its answer,
\* and the sleep before the next turn
OnboardPoll(answer) ==
    /\ onboard.pc = "poll"
    /\ Len(onboard.answers) < MaxPolls
    /\ \E o \in {[onboard EXCEPT !.answers = Append(@, answer)]} :
         onboard' =
           CASE answer = TransportError ->
                  [o EXCEPT !.pc = "returned", !.ret = OnboardErr("Failed to onboard user")]
             [] answer = NonSuccess ->
                  [o EXCEPT !.pc = "returned", !.ret = OnboardErr("User onboarding failed")]
             [] answer = Unparsable ->
                  [o EXCEPT !.pc = "returned",
                            !.ret = OnboardErr("Failed to parse onboard response")]
             [] answer = "done_true" -> [o EXCEPT !.pc = "returned", !.ret = OnboardOk]
             [] OTHER -> o
    /\ UNCHANGED <<mgr_vars, fs_vars, last, req, sse, lock_vars, api, conv, served>>

----------------------------------------------------------------------------
(* SpecOnboard: onboard_user is called once, for a credential of an        *)
(* initialized manager.                                                    *)

InitOnboard ==
    /\ credentials_dir = {CredPool[1]}
    /\ content = [f \in CredNames |-> "ok"]
    /\ state_file = None
    /\ credential_states = EmptyMap
    /\ credential_files = <<CredPool[1]>>
    /\ current_index = 0
    /\ call_count = 0
    /\ calls_per_rotation = DefaultCallsPerRotation
    /\ max_retries = DefaultMaxRetries
    /\ last = Last("initialize", None, None, <<>>, NoPre, RetNone, <<>>)
    /\ req = NoRequest
    /\ sse = NoStream
    /\ rwlock = None
    /\ task = NoTasks
    /\ api = NoApi
    /\ conv = NoConv
    /\ served = <<>>
    /\ onboard = NoOnboard

NextOnboard ==
    \/ \E has_access_token \in BOOLEAN, load \in LoadAnswers :
         OnboardUser(has_access_token, load)
    \/ \E answer \in PollAnswers : OnboardPoll(answer)

SpecOnboard == InitOnboard /\ [][NextOnboard]_vars

----------------------------------------------------------------------------
(* Claims on the onboarding poll (SpecOnboard) *)

\* the poll was entered and the vendor has answered it
Polled == onboard.answers # <<>>
LastAnswer == onboard.answers[Len(onboard.answers)]

\* C31, as stated: the poll ends only on done = true, on a non-success
\* status or on a transport failure
C31_AsStated ==
    (Polled /\ onboard.pc = "returned") =>
        LastAnswer \in {"done_true", NonSuccess, TransportError}

\* C31: the onboarding poll in onboard_user has no attempt bound: it
\* terminates only when the vendor answers done=true, answers a non-success
\* status, answers a success whose body is not JSON, or the transport fails;
\* as long as the vendor keeps answering success with a JSON body whose done
\* is not true, onboard_user does not return.
C31_PollHasNoAttemptBound ==
    Polled =>
        IF \A i \in 1..Len(onboard.answers) : onboard.answers[i] \in NotDoneAnswers
        THEN onboard.pc = "poll" /\ onboard.ret = None
        ELSE /\ onboard.pc = "returned"
             /\ LastAnswer \in {"done_true", NonSuccess, Unparsable, TransportError}
             /\ \A i \in 1..(Len(onboard.answers) - 1) : onboard.answers[i] \in NotDoneAnswers
             /\ onboard.ret = OnboardOk <=> LastAnswer = "done_true"

\* C31 witness: the vendor has answered MaxPolls times without done = true
\* and the poll goes on
C31_Witness ==
    /\ onboard.pc = "poll"
    /\ Len(onboard.answers) = MaxPolls
    /\ onboard.answers[1] = "done_false"
    /\ onboard.answers[MaxPolls] = "done_missing"

----------------------------------------------------------------------------
(* Concurrent requests and the lock Arc<RwLock<CredentialManager>>.  Each  *)
(* task serves one request, together with the task that request spawns; a  *)
(* step is one manager call, one outbound call or one lock operation, so   *)
(* that steps of different tasks interleave wherever the lock lets them.   *)

Tasks == 1..NumTasks

\* mutant: write() is granted while another task holds the lock
CanAcquireWrite_Always(holder) == TRUE

\* RwLock::write().await returns when no guard is held
CanAcquireWrite(holder) == holder = None

\* the manager fields a request's preparation reads and writes
Managed == <<credential_states, credential_files, current_index, call_count>>

\* the paths of chat_completion: the retry loops (streaming and
\* non-streaming requests) and handle_fake_streaming
TaskKinds == {"retry", "fake"}

\* a task at the start of its path, and one that has returned (its locals
\* are gone)
TaskStart(kind) ==
    [pc |-> IF kind = "fake" THEN "fake_log" ELSE "prepare", kind |-> kind, seen |-> <<>>,
     prepared |-> FALSE, creds |-> None, file_name |-> None, vendor |-> "ok",
     records |-> 0, attempts |-> 0, retry |-> FALSE]
TaskDone == [TaskStart("retry") EXCEPT !.pc = "done"]

\* credential_manager.write().await: in handle_fake_streaming, in
\* prepare_request and prepare_request_with_retry, and before record_error /
\* record_success
AcquireWrite(t) ==
    /\ task[t].pc \in {"fake_log", "prepare", "record"}
    /\ CanAcquireWrite(rwlock)
    /\ rwlock' = Some(t)
    /\ task' = [task EXCEPT ![t].pc = CASE @ = "fake_log" -> "fake_log_locked"
                                        [] @ = "prepare" -> "prepare_locked"
                                        [] OTHER -> "record_locked"]
    /\ UNCHANGED <<mgr_vars, fs_vars, last, req, sse, io_vars>>

\* handle_fake_streaming lines 406-410: get_current_credentials for the
\* credential id of the log line
TaskFakeLog(t) ==
    /\ task[t].pc = "fake_log_locked"
    /\ \E sel \in {GetCurrentCredentials(credential_files, current_index, call_count)} :
         /\ credential_files' = sel.credential_files
         /\ current_index' = sel.current_index
         /\ call_count' = sel.call_count
    /\ task' = [task EXCEPT ![t].pc = "fake_logged"]
    /\ UNCHANGED <<credential_states, calls_per_rotation, max_retries, fs_vars, last,
                   req, sse, rwlock, io_vars>>

\* manager.increment_call_count() in prepare_request_with_retry and
\* prepare_request
TaskIncrementCallCount(t) ==
    /\ task[t].pc = "prepare_locked"
    /\ call_count' = call_count + 1
    /\ task' = [task EXCEPT ![t].pc = "incremented",
                            ![t].seen = <<credential_states, credential_files,
                                          current_index, call_count + 1>>]
    /\ UNCHANGED <<credential_states, credential_files, current_index,
                   calls_per_rotation, max_retries, fs_vars, last, req, sse, rwlock, io_vars>>

\* mutant: the file name is read from the cursor as it was before the
\* selection
TaskSelect_StaleFileName(t) ==
    /\ task[t].pc = "incremented"
    /\ \E sel \in {IF task[t].kind = "fake"
                   THEN GetCurrentCredentials(credential_files, current_index, call_count)
                   ELSE GetCredentialsWithRetry(credential_files, current_index,
                                                call_count)} :
         /\ credential_files' = sel.credential_files
         /\ current_index' = sel.current_index
         /\ call_count' = sel.call_count
         /\ task' = [task EXCEPT
                       ![t].pc = "selected",
                       ![t].seen = <<>>,
                       ![t].prepared = sel.ret.tag = "Some",
                       ![t].creds = sel.ret.file,
                       ![t].file_name = GetCurrentFileName(credential_files, current_index)]
    /\ UNCHANGED <<credential_states, calls_per_rotation, max_retries, fs_vars, last,
                   req, sse, rwlock, io_vars>>

\* manager.get_credentials_with_retry() (prepare_request_with_retry) or
\* get_current_credentials() (prepare_request, the fake-streaming path),
\* and get_current_file_name()
TaskSelect(t) ==
    /\ task[t].pc = "incremented"
    /\ \E sel \in {IF task[t].kind = "fake"
                   THEN GetCurrentCredentials(credential_files, current_index, call_count)
                   ELSE GetCredentialsWithRetry(credential_files, current_index,
                                                call_count)} :
         /\ credential_files' = sel.credential_files
         /\ current_index' = sel.current_index
         /\ call_count' = sel.call_count
         /\ task' = [task EXCEPT
                       ![t].pc = "selected",
                       ![t].seen = <<>>,
                       ![t].prepared = sel.ret.tag = "Some",
                       ![t].creds = sel.ret.file,
                       ![t].file_name = GetCurrentFileName(sel.credential_files,
                                                           sel.current_index)]
    /\ UNCHANGED <<credential_states, calls_per_rotation, max_retries, fs_vars, last,
                   req, sse, rwlock, io_vars>>

\* the preparation of task t has failed: `?` returns from it
PrepareFailed(t) == task' = [task EXCEPT ![t].pc = "selected", ![t].prepared = FALSE]

\* mutant: the guard is dropped before the token refresh call
TaskRefresh_WithoutGuard(t) ==
    /\ task[t].pc = "selected"
    /\ task[t].prepared
    /\ \E refresh \in {"ok", "failed"} :
         IF refresh = "ok" THEN task' = [task EXCEPT ![t].pc = "refreshed"]
         ELSE PrepareFailed(t)
    /\ rwlock' = None
    /\ UNCHANGED <<mgr_vars, fs_vars, last, req, sse, io_vars>>

\* manager.refresh_credentials(&mut creds).await, the token refresh call
TaskRefresh(t) ==
    /\ task[t].pc = "selected"
    /\ task[t].prepared
    /\ \E refresh \in {"ok", "failed"} :
         IF refresh = "ok" THEN task' = [task EXCEPT ![t].pc = "refreshed"]
         ELSE PrepareFailed(t)
    /\ UNCHANGED <<mgr_vars, fs_vars, last, req, sse, rwlock, io_vars>>

\* gemini_client.onboard_user up to its loop: the loadCodeAssist call
TaskOnboardUser(t) ==
    /\ task[t].pc = "refreshed"
    /\ \E load \in LoadAnswers :
         CASE load = "current_tier" -> task' = [task EXCEPT ![t].pc = "onboarded"]
           [] load = "no_current_tier" -> task' = [task EXCEPT ![t].pc = "onboard_post"]
           [] OTHER -> PrepareFailed(t)
    /\ UNCHANGED <<mgr_vars, fs_vars, last, req, sse, rwlock, io_vars>>

\* one onboardUser call of the poll
TaskOnboardPost(t) ==
    /\ task[t].pc = "onboard_post"
    /\ \E answer \in PollAnswers :
         CASE answer = "done_true" -> task' = [task EXCEPT ![t].pc = "onboarded"]
           [] answer \in NotDoneAnswers -> task' = [task EXCEPT ![t].pc = "onboard_sleep"]
           [] OTHER -> PrepareFailed(t)
    /\ UNCHANGED <<mgr_vars, fs_vars, last, req, sse, rwlock, io_vars>>

\* the sleep of the poll before its next call
TaskOnboardSleep(t) ==
    /\ task[t].pc = "onboard_sleep"
    /\ task' = [task EXCEPT ![t].pc = "onboard_post"]
    /\ UNCHANGED <<mgr_vars, fs_vars, last, req, sse, rwlock, io_vars>>

\* mutant: the guard outlives the preparation
ReleaseWrite_KeepsPrepareGuard(t) ==
    /\ \/ task[t].pc \in {"fake_logged", "onboarded", "recorded"}
       \/ task[t].pc = "selected" /\ ~task[t].prepared
    /\ rwlock' = IF rwlock = Some(t) /\ task[t].pc # "onboarded" THEN None ELSE rwlock
    /\ \E pc \in {CASE task[t].pc = "fake_logged" -> "prepare"
                    [] task[t].pc = "selected" -> "done"
                    [] task[t].pc = "onboarded" ->
                         IF task[t].kind = "retry" /\ task[t].attempts = 0
                         THEN "read_max_retries" ELSE "send"
                    [] task[t].records > 0 -> "record"
                    [] task[t].retry -> "prepare"
                    [] OTHER -> "done"} :
         task' = [task EXCEPT
                    ![t] = CASE pc = "done" -> TaskDone
                             [] pc = "prepare" ->
                                  [TaskStart(task[t].kind) EXCEPT
                                     !.pc = "prepare", !.attempts = task[t].attempts]
                             [] OTHER -> [task[t] EXCEPT !.pc = pc]]
    /\ UNCHANGED <<mgr_vars, fs_vars, last, req, sse, io_vars>>

\* the guard is dropped: at the end of the block of handle_fake_streaming,
\* at the return of prepare_request_with_retry and prepare_request (with an
\* error, or after refresh_credentials and onboard_user), and after a
\* record_* call
ReleaseWrite(t) ==
    /\ \/ task[t].pc \in {"fake_logged", "onboarded", "recorded"}
       \/ task[t].pc = "selected" /\ ~task[t].prepared
    /\ rwlock' = IF rwlock = Some(t) THEN None ELSE rwlock
    /\ \E pc \in {CASE task[t].pc = "fake_logged" -> "prepare"
                    [] task[t].pc = "selected" -> "done"
                    [] task[t].pc = "onboarded" ->
                         IF task[t].kind = "retry" /\ task[t].attempts = 0
                         THEN "read_max_retries" ELSE "send"
                    [] task[t].records > 0 -> "record"
                    [] task[t].retry -> "prepare"
                    [] OTHER -> "done"} :
         task' = [task EXCEPT
                    ![t] = CASE pc = "done" -> TaskDone
                             [] pc = "prepare" ->
                                  [TaskStart(task[t].kind) EXCEPT
                                     !.pc = "prepare", !.attempts = task[t].attempts]
                             [] OTHER -> [task[t] EXCEPT !.pc = pc]]
    /\ UNCHANGED <<mgr_vars, fs_vars, last, req, sse, io_vars>>

\* RwLock::read().await returns when no write guard is held
CanAcquireRead(holder) == holder = None

\* the block at the start of the retry loops: credential_manager.read(),
\* manager.max_retries(), and the read guard is dropped
TaskReadMaxRetries(t) ==
    /\ task[t].pc = "read_max_retries"
    /\ CanAcquireRead(rwlock)
    /\ task' = [task EXCEPT ![t].pc = "send"]
    /\ UNCHANGED <<mgr_vars, fs_vars, last, req, sse, rwlock, io_vars>>

\* the vendor call of one attempt, made without the lock; the fake-streaming
\* path records a success only
TaskSend(t) ==
    /\ task[t].pc = "send"
    /\ \E vendor \in {"ok", "error"} :
         task' = [task EXCEPT
                    ![t] = IF task[t].kind = "fake" /\ vendor = "error" THEN TaskDone
                           ELSE [@ EXCEPT !.pc = "record", !.vendor = vendor,
                                          !.records = IF vendor = "ok" THEN 1 ELSE 2]]
    /\ UNCHANGED <<mgr_vars, fs_vars, last, req, sse, rwlock, io_vars>>

\* record_success in handle_*_request; or record_error(file, 500) there and
\* then record_error(file, status) in the retry loop, each under a guard of
\* its own, and the loop's give-up test on manager.max_retries()
TaskRecord(t) ==
    /\ task[t].pc = "record_locked"
    /\ \E now \in Times :
         Persist(IF task[t].vendor = "ok"
                 THEN ServiceRecordSuccess(credential_states, task[t].file_name, now)
                 ELSE ServiceRecordError(credential_states, task[t].file_name, 500),
                 task[t].file_name # None)
    /\ task' = [task EXCEPT
                  ![t].pc = "recorded",
                  ![t].records = @ - 1,
                  ![t].attempts = IF task[t].records = 1 /\ task[t].vendor = "error"
                                  THEN @ + 1 ELSE @,
                  ![t].retry = task[t].records = 1 /\ task[t].vendor = "error"
                               /\ task[t].attempts + 1 < max_retries]
    /\ UNCHANGED <<credential_files, current_index, call_count, calls_per_rotation,
                   max_retries, content, last, req, sse, rwlock, io_vars>>

----------------------------------------------------------------------------
(* SpecLock: NumTasks requests arrive at an initialized service.           *)

InitLock ==
    /\ credentials_dir = ServiceNames
    /\ content = [f \in CredNames |-> "ok"]
    /\ state_file = None
    /\ credential_states = EmptyMap
    /\ credential_files = DiscoverCredentialFiles(credentials_dir, EmptyMap)
    /\ current_index = 0
    /\ call_count = 0
    /\ calls_per_rotation \in 1..MaxCallsPerRotation
    /\ max_retries \in 1..MaxServiceRetries
    /\ last = Last("initialize", None, None, <<>>, NoPre, RetNone, <<>>)
    /\ req = NoRequest
    /\ sse = NoStream
    /\ rwlock = None
    /\ task \in [Tasks -> {TaskStart(kind) : kind \in TaskKinds}]
    /\ api = NoApi
    /\ conv = NoConv
    /\ served = <<>>
    /\ onboard = NoOnboard

NextLock ==
    \E t \in Tasks :
        \/ AcquireWrite(t)
        \/ TaskFakeLog(t)
        \/ TaskIncrementCallCount(t)
        \/ TaskSelect(t)
        \/ TaskRefresh(t)
        \/ TaskOnboardUser(t)
        \/ TaskOnboardPost(t)
        \/ TaskOnboardSleep(t)
        \/ ReleaseWrite(t)
        \/ TaskReadMaxRetries(t)
        \/ TaskSend(t)
        \/ TaskRecord(t)

SpecLock == InitLock /\ [][NextLock]_vars

----------------------------------------------------------------------------
(* Claims on the lock (SpecLock) *)

LockedPcs == {"fake_log_locked", "fake_logged", "prepare_locked", "incremented", "selected",
              "refreshed", "onboard_post", "onboard_sleep", "onboarded", "record_locked",
              "recorded"}

\* at most one task is between acquiring and releasing the lock
AtMostOneLocked ==
    \A t, u \in Tasks : (task[t].pc \in LockedPcs /\ task[u].pc \in LockedPcs) => t = u

\* between a task's increment_call_count and its selection the manager is as
\* that increment left it
NoInterleaving ==
    \A t \in Tasks : task[t].pc = "incremented" => Managed = task[t].seen

\* a step that changes the manager or its state file is a step of the task
\* that holds the lock
MutationByHolder ==
    (mgr_vars' # mgr_vars \/ state_file' # state_file) =>
        \E t \in Tasks : rwlock = Some(t) /\ task'[t] # task[t]
                         /\ \A u \in Tasks \ {t} : task'[u] = task[u]

\* C11: every mutation of current_index, call_count, the eligible list or the
\* state map is made by the task that holds the exclusive lock, at most one
\* task holds it, and no other task's mutation comes between a request's
\* increment_call_count and its selection.
C11_MutationsUnderExclusiveLock ==
    /\ [](AtMostOneLocked /\ NoInterleaving)
    /\ [][MutationByHolder]_vars

\* one task is between its increment and its selection while another, having
\* finished its vendor call, waits for the lock to record the outcome
C11_Witness ==
    \E t, u \in Tasks : /\ task # NoTasks
                        /\ task[t].pc = "incremented"
                        /\ task[u].pc = "record"
                        /\ rwlock = Some(t)

----------------------------------------------------------------------------
(* Claims on the task of a streaming request (SpecStream) *)

\* the number of events e among events
RECURSIVE CountOf(_, _)
CountOf(events, e) ==
    IF events = <<>> THEN 0
    ELSE (IF Head(events) = e THEN 1 ELSE 0) + CountOf(Tail(events), e)

\* events is chunks, then one error event, then the terminal [DONE]
EndsWithOneError(events) ==
    /\ Len(events) >= 2
    /\ events[Len(events) - 1] = "error"
    /\ events[Len(events)] = "[DONE]"
    /\ \A i \in 1..(Len(events) - 2) : events[i] = "chunk"

\* C12: an error of the vendor stream that comes after the client stream was
\* opened is delivered as exactly one error event, no vendor chunk follows
\* it, the stream terminates, and 500 is recorded (and saved) in the error
\* codes of the credential that served the stream.
C12_MidStreamErrorIsFinalAndRecorded ==
    /\ (sse.pc = "after_loop" /\ sse.has_error) =>
           /\ CountOf(sse.events, "error") = 1
           /\ sse.events[Len(sse.events)] = "error"
    /\ (sse.pc = "finished" /\ sse.has_error) =>
           /\ req.pc = "done"
           /\ EndsWithOneError(req.events)
           /\ Contains(ErrorCodesOf(credential_states, StreamFile), 500)
           /\ state_file = SaveStates(credential_states)

\* a chunk was forwarded, then the transport failed, and the task has ended
C12_Witness ==
    /\ sse.pc = "finished"
    /\ sse.items = <<OkItem, ErrItem("Stream error")>>
    /\ req.events = <<"chunk", "error", "[DONE]">>

----------------------------------------------------------------------------
(* Claims on the health check (SpecService) *)

\* the request whose messages are exactly one user message "Hi" has arrived
HealthCheckArrives ==
    /\ req.pc = "idle"
    /\ req'.pc # "idle"
    /\ req'.messages = <<[role |-> "user", content |-> Str("Hi")]>>

\* C13: a request whose messages are exactly one user message with the
\* string content "Hi" gets the fixed health-check reply, and handling it
\* performs no credential-manager operation (the lock, call_count,
\* current_index, the eligible list, the state map and its file are
\* untouched) and no outbound call, whatever its model name and stream flag.
C13_HealthCheckTouchesNothing ==
    [][HealthCheckArrives =>
         /\ req'.pc = "done"
         /\ req'.resp = Some(200)
         /\ req'.body = "health_check"
         /\ req'.selectors = {}
         /\ req'.log = <<>>
         /\ UNCHANGED <<mgr_vars, fs_vars, rwlock, io_vars>>]_vars

\* a health check with the fake-streaming suffix and stream = true has been
\* answered by a service that has credentials
C13_Witness ==
    /\ req.pc = "done"
    /\ req.kind = "health_check"
    /\ req.fake_suffix
    /\ req.stream
    /\ credential_files # <<>>

----------------------------------------------------------------------------
(* The HTTP front: the routes of main and create_api_routes, and            *)
(* auth_middleware in front of the /v1 routes.  A string is a sequence of  *)
(* one-character strings.                                                  *)

BearerPrefix == <<"B", "e", "a", "r", "e", "r", " ">>
\* AppConfig::default().password, and another configured password
DefaultPassword == <<"p", "w", "d">>
Passwords == {DefaultPassword, <<"p", "w">>}

\* the Authorization header of a request: absent, not visible ASCII (to_str
\* fails), or a text
NoHeader == [kind |-> "absent", text |-> <<>>]
NotText == [kind |-> "bytes", text |-> <<>>]
Text(t) == [kind |-> "text", text |-> t]
AuthHeaders ==
    {NoHeader, NotText} \cup
    {Text(h) : h \in {BearerPrefix \o DefaultPassword,
                      BearerPrefix \o <<"p", "w">>,
                      BearerPrefix \o <<"p", "w", "d", "x">>,
                      BearerPrefix \o <<" ", "p", "w", "d">>,
                      BearerPrefix,
                      <<"b", "e", "a", "r", "e", "r", " ", "p", "w", "d">>,
                      <<"B", "a", "s", "i", "c", " ", "p", "w", "d">>,
                      DefaultPassword}}

Routes == {"/v1/models", "/v1/chat/completions", "/health"}
ProtectedRoutes == {"/v1/models", "/v1/chat/completions"}

\* str::strip_prefix(prefix)
StripPrefixOf(text, prefix) ==
    IF Len(text) >= Len(prefix) /\ SubSeq(text, 1, Len(prefix)) = prefix
    THEN Some(SubSeq(text, Len(prefix) + 1, Len(text)))
    ELSE None

\* mutant: every Bearer token is accepted
Authorized_AnyBearer(header, system_password) ==
    /\ header.kind = "text"
    /\ StripPrefixOf(header.text, BearerPrefix) # None

\* auth_middleware lets the request through to next.run
Authorized(header, system_password) ==
    /\ header.kind = "text"
    /\ StripPrefixOf(header.text, BearerPrefix) # None
    /\ StripPrefixOf(header.text, BearerPrefix)[1] = system_password

\* the answer of auth_middleware to a request it stops
Forbidden(a) ==
    [a EXCEPT !.pc = "answered", !.status = 403,
              !.error_type = "authentication_error", !.code = 403]

\* one HTTP request: the router, auth_middleware on the /v1 routes, then the
\* handler (list_models, chat_completions, health_check)
HttpRequest(route, header, messages, fake_suffix, stream) ==
    /\ api.pc = "listening"
    /\ \E a \in {[api EXCEPT !.route = route, !.header = header]} :
         IF route \in ProtectedRoutes /\ ~Authorized(header, api.password)
         THEN /\ api' = Forbidden(a)
              /\ UNCHANGED <<mgr_vars, fs_vars, last, req, sse, lock_vars, conv, served, onboard>>
         ELSE IF route = "/v1/chat/completions"
         THEN /\ api' = [a EXCEPT !.pc = "answered", !.handler = "chat_completions"]
              /\ ChatCompletion(messages, fake_suffix, stream)
         ELSE /\ api' = [a EXCEPT !.pc = "answered", !.status = 200,
                                  !.handler = IF route = "/health" THEN "health_check"
                                              ELSE "list_models"]
              /\ UNCHANGED <<mgr_vars, fs_vars, last, req, sse, lock_vars, conv, served, onboard>>

\* a step of the service on the request chat_completions passed to it
ServiceStep ==
    /\ \/ PrepareRequestWithRetry
       \/ SendWithRetry
       \/ StreamTask
       \/ FakeStreamingLog
       \/ FakeStreamingPrepare
       \/ FakeStreamingSend
    /\ UNCHANGED <<api>>

----------------------------------------------------------------------------
(* SpecAuth: an initialized service with its credentials answers one HTTP  *)
(* request.                                                                *)

InitAuth ==
    /\ credentials_dir = ServiceNames
    /\ content = [f \in CredNames |-> "ok"]
    /\ state_file = None
    /\ credential_states = EmptyMap
    /\ credential_files = DiscoverCredentialFiles(credentials_dir, EmptyMap)
    /\ current_index = 0
    /\ call_count = 0
    /\ calls_per_rotation = DefaultCallsPerRotation
    /\ max_retries = DefaultMaxRetries
    /\ last = Last("initialize", None, None, <<>>, NoPre, RetNone, <<>>)
    /\ req = NoRequest
    /\ sse = NoStream
    /\ rwlock = None
    /\ task = NoTasks
    /\ conv = NoConv
    /\ served = <<>>
    /\ onboard = NoOnboard
    /\ \E password \in Passwords :
         api = [pc |-> "listening", password |-> password, route |-> "", header |-> NoHeader,
                status |-> 0, error_type |-> "", code |-> 0, handler |-> ""]

NextAuth ==
    \/ \E route \in Routes, header \in AuthHeaders, messages \in RequestMessages,
          fake_suffix \in BOOLEAN, stream \in BOOLEAN :
         HttpRequest(route, header, messages, fake_suffix, stream)
    \/ ServiceStep

SpecAuth == InitAuth /\ [][NextAuth]_vars

----------------------------------------------------------------------------
(* Claims on authentication (SpecAuth) *)

\* C14: a request to a /v1 route reaches its handler only if its
\* Authorization header is "Bearer " followed by the configured password;
\* any other request to such a route (no header, not Bearer, another
\* password) is answered 403 with an error of type authentication_error and
\* code 403, and neither the handler nor the credential manager runs for it.
C14_BearerPasswordGuardsV1 ==
    (api.pc = "answered" /\ api.route \in ProtectedRoutes) =>
        IF api.header = Text(BearerPrefix \o api.password)
        THEN api.handler \in {"list_models", "chat_completions"}
        ELSE /\ api.status = 403
             /\ api.error_type = "authentication_error"
             /\ api.code = 403
             /\ api.handler = ""
             /\ req = NoRequest
             /\ call_count = 0
             /\ state_file = None

\* a chat-completions request with a Bearer token that is not the
\* configured password has been answered
C14_Witness ==
    /\ api.pc = "answered"
    /\ api.route = "/v1/chat/completions"
    /\ api.header = Text(BearerPrefix \o <<"p", "w", "d", "x">>)
    /\ api.status = 403

----------------------------------------------------------------------------
(* Claims on a service without credentials (SpecService) *)

\* no credential file is eligible, also after a re-discovery
NoCredentialAvailable ==
    /\ credential_files = <<>>
    /\ DiscoverCredentialFiles(credentials_dir, credential_states) = <<>>

\* C15: when no credential is available, every chat-completion request that
\* is not a health check, the fake-streaming ones included, is answered with
\* a 400-class error saying that no credentials are available, and no vendor
\* call is made.
C15_NoCredentialsAnswered400 ==
    (req.pc = "done" /\ req.kind # "health_check" /\ NoCredentialAvailable) =>
        /\ req.resp = Some(400)
        /\ req.fail = "no_credentials"
        /\ req.log = <<>>

----------------------------------------------------------------------------
(* Claims on fake streaming (SpecService) *)

\* C17: a successful request with the fake-streaming suffix and stream = true
\* makes one non-streaming vendor call and its stream is exactly the
\* heartbeat chunk, one content chunk with finish_reason stop, and the
\* terminal sentinel, in this order.
C17_FakeStreamIsHeartbeatContentDone ==
    (req.pc = "done" /\ req.kind = "fake_streaming" /\ req.fail = "") =>
        /\ Len(req.log) = 1
        /\ req.events = <<"heartbeat", "content", "[DONE]">>

----------------------------------------------------------------------------
(* SpecRotate: a freshly initialized manager with two or more loadable     *)
(* credentials serves logical requests one after the other; each does      *)
(* increment_call_count and one selection, as prepare_request_with_retry   *)
(* does under the lock, and then records its outcome.                      *)

\* mutant: the preparation does not call increment_call_count
ServeRequest_WithoutIncrement(vendor, now) ==
    /\ Len(served) < MaxServed
    /\ \E sel \in {GetCredentialsWithRetry(credential_files, current_index, call_count)} :
         /\ sel.ret.tag = "Some"
         /\ credential_files' = sel.credential_files
         /\ current_index' = sel.current_index
         /\ call_count' = sel.call_count
         /\ served' = Append(served, sel.ret.file[1])
         /\ Persist(IF vendor = "ok"
                    THEN RecordSuccessStates(credential_states, sel.ret.file[1], now)
                    ELSE RecordErrorStates(credential_states, sel.ret.file[1], 500),
                    TRUE)
    /\ UNCHANGED <<calls_per_rotation, max_retries, content, last, req, sse, lock_vars,
                   api, conv, onboard>>

\* one logical request: the preparation, the vendor call with the selected
\* credential, and record_success or record_error for it
ServeRequest(vendor, now) ==
    /\ Len(served) < MaxServed
    /\ \E sel \in {GetCredentialsWithRetry(credential_files, current_index, call_count + 1)} :
         /\ sel.ret.tag = "Some"
         /\ credential_files' = sel.credential_files
         /\ current_index' = sel.current_index
         /\ call_count' = sel.call_count
         /\ served' = Append(served, sel.ret.file[1])
         /\ Persist(IF vendor = "ok"
                    THEN RecordSuccessStates(credential_states, sel.ret.file[1], now)
                    ELSE RecordErrorStates(credential_states, sel.ret.file[1], 500),
                    TRUE)
    /\ UNCHANGED <<calls_per_rotation, max_retries, content, last, req, sse, lock_vars,
                   api, conv, onboard>>

InitRotate ==
    /\ credentials_dir \in {d \in SUBSET CredNames : Cardinality(d) >= 2}
    /\ content = [f \in CredNames |-> "ok"]
    /\ state_file = None
    /\ credential_states = EmptyMap
    /\ credential_files = DiscoverCredentialFiles(credentials_dir, EmptyMap)
    /\ current_index = 0
    /\ call_count = 0
    /\ calls_per_rotation \in 1..MaxCallsPerRotation
    /\ max_retries = DefaultMaxRetries
    /\ last = Last("initialize", None, None, <<>>, NoPre, RetNone, <<>>)
    /\ req = NoRequest
    /\ sse = NoStream
    /\ rwlock = None
    /\ task = NoTasks
    /\ api = NoApi
    /\ conv = NoConv
    /\ served = <<>>
    /\ onboard = NoOnboard

NextRotate == \E vendor \in {"ok", "error"}, now \in Times : ServeRequest(vendor, now)

SpecRotate == InitRotate /\ [][NextRotate]_vars

----------------------------------------------------------------------------
(* Claims on rotation (SpecRotate) *)

\* C16: with calls_per_rotation = N, every credential, the first one
\* included, serves exactly N consecutive requests before the cursor moves
\* to the next one, whatever the outcomes of the requests: the i-th request
\* is served by the credential at position ((i - 1) div N) mod n of the list.
C16_EveryCredentialServesN ==
    \A i \in 1..Len(served) :
        served[i] = credential_files[(((i - 1) \div calls_per_rotation)
                                       % Len(credential_files)) + 1]

----------------------------------------------------------------------------
(* The transcoder: utils/thinking_config.rs and utils/transformers.rs.     *)
(* Strings are sequences of characters, as above; WideChar stands for one  *)
(* character whose UTF-8 encoding has three bytes (a CJK character), every *)
(* other character has one byte.                                           *)

WideChar == "U+4E2D"
WideChars == {WideChar, "U+5047", "U+6D41", "U+5F0F"}
Utf8Len(c) == IF c \in WideChars THEN 3 ELSE 1

\* str::len, in bytes
ByteLen(text) ==
    Cardinality({i \in 1..Len(text) : Utf8Len(text[i]) = 1})
    + 3 * Cardinality({i \in 1..Len(text) : Utf8Len(text[i]) = 3})

\* str::is_char_boundary
IsCharBoundary(text, n) == \E k \in 0..Len(text) : ByteLen(SubSeq(text, 1, k)) = n

\* str::starts_with, str::ends_with, str::strip_suffix, str::contains
StartsWith(text, prefix) == StripPrefixOf(text, prefix) # None
EndsWith(text, suffix) ==
    /\ Len(text) >= Len(suffix)
    /\ SubSeq(text, Len(text) - Len(suffix) + 1, Len(text)) = suffix
StripSuffixOf(text, suffix) ==
    IF EndsWith(text, suffix) THEN Some(SubSeq(text, 1, Len(text) - Len(suffix))) ELSE None
StrContains(text, needle) ==
    \E i \in 1..(Len(text) - Len(needle) + 1) : SubSeq(text, i, i + Len(needle) - 1) = needle

\* the first index from `from` on where character c stands in text, 0 if none
IndexFrom(text, c, from) ==
    IF \A i \in from..Len(text) : text[i] # c THEN 0
    ELSE CHOOSE i \in from..Len(text) :
           text[i] = c /\ \A j \in from..(i - 1) : text[j] # c

\* [&str]::join
RECURSIVE Join(_, _)
Join(texts, sep) ==
    IF texts = <<>> THEN <<>>
    ELSE IF Len(texts) = 1 THEN texts[1]
    ELSE texts[1] \o sep \o Join(Tail(texts), sep)

----------------------------------------------------------------------------
(* utils/thinking_config.rs *)

MaxThinkingSuffix == <<"-", "m", "a", "x", "t", "h", "i", "n", "k", "i", "n", "g">>
NoThinkingSuffix == <<"-", "n", "o", "t", "h", "i", "n", "k", "i", "n", "g">>
ProModel == <<"g", "e", "m", "i", "n", "i", "-", "2", ".", "5", "-", "p", "r", "o">>
FlashModel == <<"g", "e", "m", "i", "n", "i", "-", "2", ".", "5", "-", "f", "l", "a", "s", "h">>
ImageModel ==
    <<"g", "e", "m", "i", "n", "i", "-", "2", ".", "5", "-",
      "f", "l", "a", "s", "h", "-", "i", "m", "a", "g", "e">>
PreviewSuffix == <<"-", "p", "r", "e", "v", "i", "e", "w">>

NoThinkingBudget == 128
MaxThinkingBudget == 32768
DefaultThinkingBudget == -1

\* get_base_model_name: the suffixes are tried in the order of the array
GetBaseModelName(model_name) ==
    IF StripSuffixOf(model_name, MaxThinkingSuffix) # None
    THEN StripSuffixOf(model_name, MaxThinkingSuffix)[1]
    ELSE IF StripSuffixOf(model_name, NoThinkingSuffix) # None
    THEN StripSuffixOf(model_name, NoThinkingSuffix)[1]
    ELSE model_name

IsNothinkingModel(model_name) == StrContains(model_name, NoThinkingSuffix)
IsMaxthinkingModel(model_name) == StrContains(model_name, MaxThinkingSuffix)

GetThinkingBudget(model_name) ==
    IF IsNothinkingModel(model_name) THEN Some(NoThinkingBudget)
    ELSE IF IsMaxthinkingModel(model_name) THEN Some(MaxThinkingBudget)
    ELSE Some(DefaultThinkingBudget)

ShouldIncludeThoughts(model_name) ==
    IF IsNothinkingModel(model_name)
    THEN StrContains(GetBaseModelName(model_name), ProModel)
    ELSE TRUE

IsImageModel(model_name) == StrContains(model_name, ImageModel)

GeminiThinkingConfig(budget, include) ==
    [thinking_budget |-> budget, include_thoughts |-> include]

GetThinkingConfig(model_name) ==
    IF IsImageModel(model_name) THEN None
    ELSE IF GetThinkingBudget(model_name) = None THEN None
    ELSE Some(GeminiThinkingConfig(GetThinkingBudget(model_name)[1],
                                   ShouldIncludeThoughts(model_name)))

----------------------------------------------------------------------------
(* utils/transformers.rs, OpenAI request to vendor request *)

\* GeminiPart::text, GeminiPart::text_with_thought, GeminiPart::inline_data
GeminiPartText(text) ==
    [text |-> Some(text), thought |-> Some(FALSE), inline_data |-> None]
GeminiPartTextWithThought(text, thought) ==
    [text |-> Some(text), thought |-> Some(thought), inline_data |-> None]
GeminiPartInlineData(mime_type, data) ==
    [text |-> None, thought |-> None,
     inline_data |-> Some([mime_type |-> mime_type, data |-> data])]

DataScheme == <<"d", "a", "t", "a", ":">>
DefaultMimeType == <<"i", "m", "a", "g", "e", "/", "p", "n", "g">>

\* parse_data_uri: Ok((mime_type, data)) as Some, Err as None
ParseDataUri(url) ==
    IF ~StartsWith(url, DataScheme) THEN None
    ELSE LET rest == SubSeq(url, Len(DataScheme) + 1, Len(url))
             comma == IndexFrom(rest, ",", 1)
             metadata == SubSeq(rest, 1, comma - 1)
             semi == IndexFrom(metadata, ";", 1)
             mime_type == IF semi = 0 THEN metadata ELSE SubSeq(metadata, 1, semi - 1)
         IN IF comma = 0 THEN None
            ELSE Some(<<IF mime_type = <<>> THEN DefaultMimeType ELSE mime_type,
                        SubSeq(rest, comma + 1, Len(rest))>>)

\* parse_image_url
ParseImageUrl(url) ==
    IF StartsWith(url, DataScheme) /\ ParseDataUri(url) # None
    THEN Some(GeminiPartInlineData(ParseDataUri(url)[1][1], ParseDataUri(url)[1][2]))
    ELSE None

\* the regular expression !\[([^\]]*)\]\(([^)]+)\) tried at index i of text:
\* the alt text ends at the first `]`, which `(` must follow, and the url is
\* the one or more characters before the first `)`. NoMatch if it does not
\* match at i
NoMatch == [end |-> 0, url |-> <<>>]
MatchAt(text, i) ==
    IF i + 1 > Len(text) \/ text[i] # "!" \/ text[i + 1] # "[" THEN NoMatch
    ELSE LET close == IndexFrom(text, "]", i + 2)
         IN IF close = 0 \/ close + 1 > Len(text) \/ text[close + 1] # "(" THEN NoMatch
            ELSE LET paren == IndexFrom(text, ")", close + 2)
                 IN IF paren = 0 \/ paren = close + 2 THEN NoMatch
                    ELSE [end |-> paren, url |-> SubSeq(text, close + 2, paren - 1)]

\* text has a markdown image
HasMarkdownImage(text) == \E i \in 1..Len(text) : MatchAt(text, i) # NoMatch

\* parse_text_with_images after the loop: the remaining text, and the whole
\* text as one part when there is no part
ParseTail(text, last_end, parts) ==
    LET all == IF last_end < Len(text)
                  /\ Trim(SubSeq(text, last_end + 1, Len(text))) # <<>>
               THEN Append(parts, GeminiPartText(SubSeq(text, last_end + 1, Len(text))))
               ELSE parts
    IN IF all = <<>> THEN <<GeminiPartText(text)>> ELSE all

\* captures_iter: the first match from index `from` on, 0 if none
NextMatch(text, from) ==
    IF \A i \in from..Len(text) : MatchAt(text, i) = NoMatch THEN 0
    ELSE CHOOSE i \in from..Len(text) :
           MatchAt(text, i) # NoMatch /\ \A j \in from..(i - 1) : MatchAt(text, j) = NoMatch

\* parse_text_with_images, the loop over captures_iter: the matches are
\* searched from left to right after the previous one and do not overlap
RECURSIVE ParseCaptures(_, _, _)
ParseCaptures(text, last_end, parts) ==
    IF NextMatch(text, last_end + 1) = 0 THEN ParseTail(text, last_end, parts)
    ELSE LET pos == NextMatch(text, last_end + 1)
             cap == MatchAt(text, pos)
             text_before == SubSeq(text, last_end + 1, pos - 1)
             with_before == IF pos - 1 > last_end /\ Trim(text_before) # <<>>
                            THEN Append(parts, GeminiPartText(text_before))
                            ELSE parts
             image == IF ParseImageUrl(cap.url) # None THEN ParseImageUrl(cap.url)[1]
                      ELSE GeminiPartText(SubSeq(text, pos, cap.end))
         IN ParseCaptures(text, cap.end, Append(with_before, image))

ParseTextWithImages(text) == ParseCaptures(text, 0, <<>>)

\* message contents (serde_json::Value): a string, an array of items, or
\* another value (null), and Value::to_string of the latter
ValueString(text) == [kind |-> "string", text |-> text, items |-> <<>>]
ValueArray(items) == [kind |-> "array", text |-> <<>>, items |-> items]
ValueNull == [kind |-> "null", text |-> <<>>, items |-> <<>>]
NullText == <<"n", "u", "l", "l">>

\* an item of a content array: an object with or without a "text" string
\* and an "image_url" object with a "url" string
ContentItem(text, url) == [text |-> text, image_url |-> url]

\* parse_content_parts, the loop over the array
RECURSIVE ParseItems(_, _)
ParseItems(items, parts) ==
    IF items = <<>> THEN parts
    ELSE LET item == Head(items)
             with_text == IF item.text # None /\ Trim(item.text[1]) # <<>>
                          THEN parts \o ParseTextWithImages(item.text[1])
                          ELSE parts
             with_image == IF item.image_url # None /\ ParseImageUrl(item.image_url[1]) # None
                           THEN Append(with_text, ParseImageUrl(item.image_url[1])[1])
                           ELSE with_text
         IN ParseItems(Tail(items), with_image)

ParseContentParts(value) ==
    CASE value.kind = "string" -> ParseTextWithImages(value.text)
      [] value.kind = "array" -> ParseItems(value.items, <<>>)
      [] OTHER -> <<GeminiPartText(NullText)>>

\* openai_to_gemini_request, the role of a content block
GeminiRole(role) ==
    CASE role = "system" -> "user"
      [] role = "assistant" -> "model"
      [] OTHER -> role

NoGenerationConfig ==
    [temperature |-> None, top_p |-> None, top_k |-> None, max_output_tokens |-> None,
     stop_sequences |-> None, thinking_config |-> None]

\* openai_to_gemini_request; stop is None or a string
OpenaiToGeminiRequest(openai_req) ==
    LET contents == [i \in 1..Len(openai_req.messages) |->
                       [role |-> GeminiRole(openai_req.messages[i].role),
                        parts |-> ParseContentParts(openai_req.messages[i].content)]]
        generation_config ==
            IF \/ openai_req.temperature # None
               \/ openai_req.top_p # None
               \/ openai_req.max_tokens # None
               \/ openai_req.stop # None
            THEN Some([NoGenerationConfig EXCEPT
                         !.temperature = openai_req.temperature,
                         !.top_p = openai_req.top_p,
                         !.max_output_tokens = openai_req.max_tokens,
                         !.stop_sequences = IF openai_req.stop = None THEN None
                                            ELSE Some(<<openai_req.stop[1]>>)])
            ELSE None
        thinking_config == GetThinkingConfig(openai_req.model)
    IN [contents |-> contents,
        generation_config |->
            IF thinking_config = None THEN generation_config
            ELSE IF generation_config # None
            THEN Some([generation_config[1] EXCEPT !.thinking_config = thinking_config])
            ELSE Some([NoGenerationConfig EXCEPT !.thinking_config = thinking_config])]

----------------------------------------------------------------------------
(* utils/transformers.rs, vendor response to OpenAI response *)

ImagePrefix == <<"!", "[", "i", "m", "a", "g", "e", "]", "(", "d", "a", "t", "a", ":">>
Base64Mark == <<";", "b", "a", "s", "e", "6", "4", ",">>
ParagraphBreak == <<"\n", "\n">>
ImagePreviewLen == 50
ContentPreviewLen == 100

\* &text[..n] panics: n is beyond the text or inside a character
SliceToPanics(text, n) == ~(n <= ByteLen(text) /\ IsCharBoundary(text, n))

MarkdownImage(inline_data) ==
    ImagePrefix \o inline_data.mime_type \o Base64Mark \o inline_data.data \o <<")">>

\* extract_content_and_reasoning, the loop over the parts; the debug output
\* of an inline image slices the first ImagePreviewLen bytes of its markdown
RECURSIVE ExtractParts(_, _, _)
ExtractParts(parts, content_parts, reasoning_content) ==
    IF parts = <<>>
    THEN [tag |-> "Ok", content_parts |-> content_parts,
          reasoning_content |-> reasoning_content]
    ELSE CASE Head(parts).text # None /\ Head(parts).thought # None
                 /\ Head(parts).inline_data = None ->
                IF Head(parts).text[1] = <<>>
                THEN ExtractParts(Tail(parts), content_parts, reasoning_content)
                ELSE IF Head(parts).thought[1]
                THEN ExtractParts(Tail(parts), content_parts,
                                  reasoning_content \o Head(parts).text[1])
                ELSE ExtractParts(Tail(parts), Append(content_parts, Head(parts).text[1]),
                                  reasoning_content)
           [] Head(parts).text # None /\ Head(parts).thought = None
                 /\ Head(parts).inline_data = None ->
                IF Head(parts).text[1] = <<>>
                THEN ExtractParts(Tail(parts), content_parts, reasoning_content)
                ELSE ExtractParts(Tail(parts), Append(content_parts, Head(parts).text[1]),
                                  reasoning_content)
           [] Head(parts).text = None /\ Head(parts).thought = None
                 /\ Head(parts).inline_data # None ->
                IF Head(parts).inline_data[1].data = <<>>
                THEN ExtractParts(Tail(parts), content_parts, reasoning_content)
                ELSE IF SliceToPanics(MarkdownImage(Head(parts).inline_data[1]),
                                      ImagePreviewLen)
                THEN [tag |-> "Panic", content_parts |-> <<>>, reasoning_content |-> <<>>]
                ELSE ExtractParts(Tail(parts),
                                  Append(content_parts,
                                         MarkdownImage(Head(parts).inline_data[1])),
                                  reasoning_content)
           [] OTHER -> ExtractParts(Tail(parts), content_parts, reasoning_content)

Extracted(tag, text, reasoning_content) ==
    [tag |-> tag, content |-> text, reasoning_content |-> reasoning_content]

\* extract_content_and_reasoning after the loop: the join, and the debug
\* output that slices the first ContentPreviewLen bytes of a longer content
JoinExtracted(extracted) ==
    IF extracted.tag = "Panic" THEN Extracted("Panic", <<>>, <<>>)
    ELSE IF /\ ByteLen(Join(extracted.content_parts, ParagraphBreak)) > ContentPreviewLen
            /\ SliceToPanics(Join(extracted.content_parts, ParagraphBreak), ContentPreviewLen)
    THEN Extracted("Panic", <<>>, <<>>)
    ELSE Extracted("Ok", Join(extracted.content_parts, ParagraphBreak),
                   extracted.reasoning_content)

ExtractContentAndReasoning(parts) == JoinExtracted(ExtractParts(parts, <<>>, <<>>))

\* build_message_with_reasoning
BuildMessageWithReasoning(role, text, reasoning_content) ==
    [role |-> role, content |-> ValueString(text),
     reasoning_content |-> IF reasoning_content = <<>> THEN None
                           ELSE Some(reasoning_content)]

\* a candidate of a vendor response
GeminiCandidate(role, parts) ==
    [content |-> [role |-> role, parts |-> parts], finish_reason |-> Some("STOP"),
     index |-> 0]

\* the result of a response conversion: the choices, or a panic
Converted(choices) ==
    IF \E i \in 1..Len(choices) : choices[i].tag = "Panic"
    THEN [tag |-> "Panic", choices |-> <<>>]
    ELSE [tag |-> "Ok", choices |-> choices]
NoReply == [tag |-> "None", choices |-> <<>>]

\* gemini_to_openai_response
GeminiToOpenaiResponse(candidates) ==
    Converted([i \in 1..Len(candidates) |->
        [tag |-> ExtractContentAndReasoning(candidates[i].content.parts).tag,
         index |-> candidates[i].index,
         message |-> BuildMessageWithReasoning(
             IF candidates[i].content.role = "model" THEN "assistant"
             ELSE candidates[i].content.role,
             ExtractContentAndReasoning(candidates[i].content.parts).content,
             ExtractContentAndReasoning(candidates[i].content.parts).reasoning_content),
         finish_reason |-> candidates[i].finish_reason]])

\* gemini_stream_to_openai_stream; the delta stands in the field `message`
GeminiStreamToOpenaiStream(candidates) ==
    Converted([i \in 1..Len(candidates) |->
        [tag |-> ExtractContentAndReasoning(candidates[i].content.parts).tag,
         index |-> candidates[i].index,
         message |->
             [role |-> IF candidates[i].index = 0 THEN "assistant" ELSE "",
              content |->
                  ValueString(ExtractContentAndReasoning(candidates[i].content.parts).content),
              reasoning_content |->
                  IF ExtractContentAndReasoning(candidates[i].content.parts).reasoning_content
                       = <<>>
                  THEN None
                  ELSE Some(ExtractContentAndReasoning(
                                candidates[i].content.parts).reasoning_content)],
         finish_reason |-> candidates[i].finish_reason]])

----------------------------------------------------------------------------
(* models/openai.rs, the methods of OpenAIChatCompletionRequest on         *)
(* requests with their fields                                              *)

FakeStreamingSuffix == <<"-", "U+5047", "U+6D41", "U+5F0F">>
MaxTokensLimit == 65535

\* str::replace(pattern, "")
RECURSIVE Remove(_, _)
Remove(text, pattern) ==
    IF text = <<>> THEN <<>>
    ELSE IF StartsWith(text, pattern)
    THEN Remove(SubSeq(text, Len(pattern) + 1, Len(text)), pattern)
    ELSE <<Head(text)>> \o Remove(Tail(text), pattern)

\* OpenAIChatCompletionRequest::get_real_model
GetRealModel(request) ==
    IF EndsWith(request.model, FakeStreamingSuffix)
    THEN Remove(request.model, FakeStreamingSuffix)
    ELSE request.model

\* OpenAIChatCompletionRequest::is_fake_streaming
IsFakeStreaming(request) == EndsWith(request.model, FakeStreamingSuffix) /\ request.stream

\* OpenAIChatCompletionRequest::filter_empty_messages
RECURSIVE FilterEmptyMessages(_)
FilterEmptyMessages(messages) ==
    IF messages = <<>> THEN <<>>
    ELSE IF Head(messages).content.kind = "string" /\ Trim(Head(messages).content.text) = <<>>
    THEN FilterEmptyMessages(Tail(messages))
    ELSE <<Head(messages)>> \o FilterEmptyMessages(Tail(messages))

\* mutant: the limit is not applied
LimitMaxTokens_Unlimited(max_tokens) == max_tokens

\* OpenAIChatCompletionRequest::limit_max_tokens
LimitMaxTokens(max_tokens) ==
    IF max_tokens # None /\ max_tokens[1] > MaxTokensLimit THEN Some(MaxTokensLimit)
    ELSE max_tokens

----------------------------------------------------------------------------
(* SpecConvert: one chat-completion request that is not a health check is  *)
(* processed, converted for each of its attempts, and the vendor's answer  *)
(* to a non-streaming call, or one chunk of its stream, is converted back. *)

MaxConvRetries == 2

Repeat(c, n) == [i \in 1..n |-> c]

ThinkingSuffixes == {<<>>, NoThinkingSuffix, MaxThinkingSuffix, PreviewSuffix}
ModelNames ==
    {base \o first \o second : base \in {ProModel, FlashModel, ImageModel},
                               first \in {<<>>, NoThinkingSuffix, PreviewSuffix},
                               second \in ThinkingSuffixes}

\* texts without a markdown image: empty, blank, short, and longer than
\* ContentPreviewLen bytes with and without a character across that byte
PlainTexts ==
    {<<>>, <<" ">>, <<"a">>, <<"a", " ", "b">>,
     Repeat("a", ContentPreviewLen + 1),
     Repeat(WideChar, ContentPreviewLen \div 3),
     Repeat(WideChar, (ContentPreviewLen \div 3) + 1),
     <<"a">> \o Repeat(WideChar, (ContentPreviewLen \div 3) + 1)}

\* texts with a markdown image: a url that is kept as text, a data URI
ImageTexts ==
    {<<"!", "[", "x", "]", "(", "u", ")">>,
     <<"a", "!", "[", "]", "(", "u", ")", "b">>,
     <<"!", "[", "]", "(", "d", "a", "t", "a", ":", ",", "d", ")">>}

LongData == Repeat("A", ImagePreviewLen)

UserMessage(value) == [role |-> "user", content |-> value]
RequestContents ==
    {<<UserMessage(ValueString(t))>> : t \in PlainTexts \cup ImageTexts}
    \cup {<<[role |-> "system", content |-> ValueString(<<" ">>)],
            UserMessage(ValueString(<<"a">>))>>,
          <<[role |-> "assistant", content |-> ValueString(<<"a">>)],
            UserMessage(ValueNull)>>,
          <<UserMessage(ValueArray(<<ContentItem(Some(<<"a">>), None),
                                     ContentItem(None, Some(DataScheme \o <<",">> \o LongData)),
                                     ContentItem(Some(<<" ">>), Some(<<"u">>))>>))>>}

\* the model names with one message list, the message lists with one model
RequestInputs ==
    {input \in ModelNames \X RequestContents :
        input[1] = ProModel \/ input[2] = <<UserMessage(ValueString(<<"a">>))>>}

MaxTokensValues ==
    {None, Some(0), Some(MaxTokensLimit), Some(MaxTokensLimit + 1), Some(999999)}

\* what the vendor answers with: no candidate, the parts of content block
\* `echo` of the request sent back, or a thought and a text
VendorCandidates(gemini_request, echo) ==
    IF echo = 0
    THEN {<<>>,
          <<GeminiCandidate("model", <<GeminiPartTextWithThought(<<"t">>, TRUE),
                                       GeminiPartText(<<"a">>),
                                       GeminiPartText(<<"b">>)>>)>>}
    ELSE {<<GeminiCandidate("model", gemini_request.contents[echo].parts)>>}

InitConvert ==
    /\ credentials_dir = ServiceNames
    /\ content = [f \in CredNames |-> "ok"]
    /\ state_file = None
    /\ credential_states = EmptyMap
    /\ credential_files = DiscoverCredentialFiles(credentials_dir, EmptyMap)
    /\ current_index = 0
    /\ call_count = 0
    /\ calls_per_rotation = DefaultCallsPerRotation
    /\ max_retries = DefaultMaxRetries
    /\ last = Last("initialize", None, None, <<>>, NoPre, RetNone, <<>>)
    /\ req = NoRequest
    /\ sse = NoStream
    /\ rwlock = None
    /\ task = NoTasks
    /\ api = NoApi
    /\ served = <<>>
    /\ onboard = NoOnboard
    /\ \E input \in RequestInputs, fake_suffix \in BOOLEAN, stream \in BOOLEAN,
          max_tokens \in MaxTokensValues, temperature \in {None, Some("t")} :
         conv = [pc |-> "inbound",
                 inbound |-> [model |-> IF fake_suffix THEN input[1] \o FakeStreamingSuffix
                                        ELSE input[1],
                              messages |-> input[2], max_tokens |-> max_tokens,
                              temperature |-> temperature, top_p |-> None, stop |-> None,
                              stream |-> stream],
                 request |-> [model |-> <<>>, messages |-> <<>>, max_tokens |-> None,
                              temperature |-> None, top_p |-> None, stop |-> None,
                              stream |-> FALSE],
                 kind |-> "", attempts |-> 0, forwarded |-> <<>>, echo |-> 0,
                 reply |-> NoReply]

\* chat_completion lines 84-97: limit_max_tokens, filter_empty_messages, the
\* real model, and stream = false on the fake-streaming path
ProcessRequest ==
    /\ conv.pc = "inbound"
    /\ conv' = [conv EXCEPT
                  !.pc = "prepare",
                  !.kind = IF IsFakeStreaming(conv.inbound) THEN "fake_streaming"
                           ELSE IF conv.inbound.stream THEN "streaming"
                           ELSE "non_streaming",
                  !.request = [conv.inbound EXCEPT
                                 !.max_tokens = LimitMaxTokens(@),
                                 !.messages = FilterEmptyMessages(@),
                                 !.model = GetRealModel(conv.inbound),
                                 !.stream = conv.inbound.stream
                                            /\ ~IsFakeStreaming(conv.inbound)]]
    /\ UNCHANGED <<mgr_vars, fs_vars, last, req, sse, lock_vars, api, served, onboard>>

\* prepare_request and prepare_request_with_retry: the request is converted
\* for the attempt, and sent
ConvertForAttempt ==
    /\ conv.pc = "prepare"
    /\ conv' = [conv EXCEPT !.pc = "sent",
                            !.forwarded = Append(@, OpenaiToGeminiRequest(conv.request))]
    /\ UNCHANGED <<mgr_vars, fs_vars, last, req, sse, lock_vars, api, served, onboard>>

\* the attempt fails: the retry loops prepare the original request again
\* while attempts are left, the fake-streaming path has no retry
AttemptFails ==
    /\ conv.pc = "sent"
    /\ conv' = IF conv.kind = "fake_streaming" \/ conv.attempts + 1 >= MaxConvRetries
               THEN [conv EXCEPT !.pc = "failed"]
               ELSE [conv EXCEPT !.pc = "prepare", !.attempts = @ + 1]
    /\ UNCHANGED <<mgr_vars, fs_vars, last, req, sse, lock_vars, api, served, onboard>>

\* the vendor answers: handle_non_streaming_request and
\* handle_non_streaming_request_internal convert the response, the task of
\* handle_streaming_request converts a chunk
ConvertVendorAnswer ==
    /\ conv.pc = "sent"
    /\ \E echo \in 0..Len(conv.forwarded[Len(conv.forwarded)].contents) :
         \E candidates \in VendorCandidates(conv.forwarded[Len(conv.forwarded)], echo) :
           \E reply \in {IF conv.request.stream THEN GeminiStreamToOpenaiStream(candidates)
                         ELSE GeminiToOpenaiResponse(candidates)} :
             conv' = [conv EXCEPT !.pc = IF reply.tag = "Panic" THEN "panicked" ELSE "done",
                                  !.echo = echo, !.reply = reply]
    /\ UNCHANGED <<mgr_vars, fs_vars, last, req, sse, lock_vars, api, served, onboard>>

NextConvert ==
    \/ ProcessRequest
    \/ ConvertForAttempt
    \/ AttemptFails
    \/ ConvertVendorAnswer

SpecConvert == InitConvert /\ [][NextConvert]_vars

----------------------------------------------------------------------------
(* Claims on the transcoder (SpecConvert) *)

\* the thinking configuration and max_output_tokens of a forwarded request
ForwardedThinkingConfig(gemini_request) ==
    IF gemini_request.generation_config = None THEN None
    ELSE gemini_request.generation_config[1].thinking_config
ForwardedMaxOutputTokens(gemini_request) ==
    IF gemini_request.generation_config = None THEN None
    ELSE gemini_request.generation_config[1].max_output_tokens

\* the thinking configuration by the end of the model name
ThinkingConfigBySuffix(model_name) ==
    IF IsImageModel(model_name) THEN None
    ELSE IF EndsWith(model_name, NoThinkingSuffix)
    THEN Some(GeminiThinkingConfig(
                  NoThinkingBudget,
                  StrContains(StripSuffixOf(model_name, NoThinkingSuffix)[1], ProModel)))
    ELSE IF EndsWith(model_name, MaxThinkingSuffix)
    THEN Some(GeminiThinkingConfig(MaxThinkingBudget, TRUE))
    ELSE Some(GeminiThinkingConfig(DefaultThinkingBudget, TRUE))

\* C18: the thinking configuration of every forwarded request is a function
\* of the model name: a name ending in -nothinking gives budget 128 with
\* thoughts disabled, or enabled when the base model is gemini-2.5-pro; a
\* name ending in -maxthinking gives budget 32768 with thoughts enabled; a
\* name with neither suffix gives budget -1 with thoughts enabled; an image
\* model gives no thinking configuration, whatever its suffix.
C18_ThinkingConfigFollowsSuffix ==
    \A i \in 1..Len(conv.forwarded) :
        ForwardedThinkingConfig(conv.forwarded[i]) = ThinkingConfigBySuffix(conv.request.model)

\* min(max_tokens, MaxTokensLimit), absent when max_tokens is
ClampedMaxTokens(max_tokens) ==
    IF max_tokens = None THEN None ELSE Some(Min(max_tokens[1], MaxTokensLimit))

\* C19: the max_output_tokens forwarded to the vendor is
\* min(max_tokens, 65535) of the inbound request, and absent when max_tokens
\* is absent, on the first attempt and on every retry of the non-streaming,
\* streaming and fake-streaming paths.
C19_MaxOutputTokensClamped ==
    \A i \in 1..Len(conv.forwarded) :
        ForwardedMaxOutputTokens(conv.forwarded[i]) = ClampedMaxTokens(conv.inbound.max_tokens)

\* a streaming request with max_tokens above the limit has been forwarded a
\* second time, by the retry loop
C19_Witness ==
    /\ conv.kind = "streaming"
    /\ conv.inbound.max_tokens # None
    /\ conv.inbound.max_tokens[1] > MaxTokensLimit
    /\ Len(conv.forwarded) = 2

\* message i of the request is a plain string without a markdown image
PlainStringMessage(i) ==
    /\ conv.request.messages[i].content.kind = "string"
    /\ ~HasMarkdownImage(conv.request.messages[i].content.text)

\* the vendor's answer to a non-streaming call, made of the parts of content
\* block i, has been converted
ConvertedBack(i) ==
    /\ conv.pc \in {"done", "panicked"}
    /\ ~conv.request.stream
    /\ conv.echo = i

\* C20: a message whose content is a plain string without a markdown image
\* is converted to a content block with exactly one text part holding that
\* string, and a vendor candidate made of that part is converted back to a
\* message whose content is the same text.
C20_PlainStringRoundTrip ==
    \A i \in 1..Len(conv.request.messages) :
        PlainStringMessage(i) =>
            /\ \A k \in 1..Len(conv.forwarded) :
                   conv.forwarded[k].contents[i].parts
                       = <<GeminiPartText(conv.request.messages[i].content.text)>>
            /\ ConvertedBack(i) =>
                   /\ conv.reply.tag = "Ok"
                   /\ conv.reply.choices[1].message.content
                          = conv.request.messages[i].content

----------------------------------------------------------------------------
(* Claims on the steps of a selection (SpecSelect).  The directory, the    *)
(* files and the state map do not change in SpecSelect, so the steps of    *)
(* the last call are those of the same call made on last.pre.              *)

\* the list the last call worked on: last.pre's, or the re-discovered one
FilesOfLast ==
    IF last.pre.credential_files = <<>>
    THEN DiscoverCredentialFiles(credentials_dir, credential_states)
    ELSE last.pre.credential_files

\* the initial get_current_credentials of the last get_credentials_with_retry
FirstOfLast ==
    GetCurrentCredentials(FilesOfLast, last.pre.current_index, last.pre.call_count)

\* its forward walk, from start_index
StartIndexOfLast == FirstOfLast.current_index
WalkOfLast == Walk(FilesOfLast, StartIndexOfLast, StartIndexOfLast, {}, 0, FirstOfLast.loads)

\* the last call was get_credentials_with_retry and its forward walk ended
\* without a credential
WalkFoundNothing ==
    /\ last.op = "get_credentials_with_retry"
    /\ FilesOfLast # <<>>
    /\ FirstOfLast.ret.tag \in {"None", "Err"}
    /\ WalkOfLast.ret.tag # "Some"

\* after the loads of the walk the call loaded the file at start_index, and
\* nothing else
FinalAttemptMade ==
    last.loads = Append(WalkOfLast.loads, FilesOfLast[StartIndexOfLast + 1])

C22_NoFileLoadedTwice ==
    last.op = "get_credentials_with_retry" =>
        \A i, j \in 1..Len(last.loads) : last.loads[i] = last.loads[j] => i = j

Selections == {"get_current_credentials", "get_credentials_with_retry"}

\* the last call was a selection that returned a credential
SelectionReturnedCredential == last.op \in Selections /\ last.ret.tag = "Some"

\* the cursor is the index of the file the returned credential was loaded
\* from, the last file the call loaded, and get_current_file_name names it
CursorNamesReturnedFile ==
    SelectionReturnedCredential =>
        /\ current_index < Len(credential_files)
        /\ credential_files[current_index + 1] = last.loads[Len(last.loads)]
        /\ GetCurrentFileName(credential_files, current_index) = last.ret.file

\* a selection that follows without rotating loads that file first
NextSelectionStartsThere ==
    (/\ SelectionReturnedCredential
     /\ last'.op \in Selections
     /\ ~(call_count >= calls_per_rotation))
        => (last'.loads # <<>> /\ last'.loads[1] = last.ret.file[1])

\* C23: whenever get_credentials_with_retry or get_current_credentials
\* returns a credential, current_index is the index of the file that
\* credential was loaded from, so get_current_file_name names that file, and
\* the next selection without rotation starts from it.
C23_CursorAtReturnedCredential ==
    []CursorNamesReturnedFile /\ [][NextSelectionStartsThere]_vars

\* C23 witness: get_credentials_with_retry found its credential in the
\* forward walk, after the two attempts of get_current_credentials
C23_Witness ==
    /\ last.op = "get_credentials_with_retry"
    /\ last.ret.tag = "Some"
    /\ Len(last.loads) >= 3
    /\ current_index # last.pre.current_index

\* the last call was get_current_credentials and the file it loaded first,
\* the one at current_index, gave no credential
FirstLoadGaveNothing ==
    /\ last.op = "get_current_credentials"
    /\ last.loads # <<>>
    /\ LoadCredentialsFromFile(last.loads[1]).tag # "Some"

\* the index after the one of the file loaded first
IndexAfterFirstLoad ==
    LET first == CHOOSE i \in 1..Len(credential_files) : credential_files[i] = last.loads[1]
    IN (first % Len(credential_files)) + 1

\* C24: in get_current_credentials, when the load of the file at
\* current_index fails (unreadable, unparsable or empty refresh token) and
\* more than one file is eligible, the file at the very next index is tried
\* once; the method returns None, never an error, when neither is usable.
C24_NextFileTriedOnce ==
    FirstLoadGaveNothing =>
        /\ last.ret.tag # "Err"
        /\ IF Len(credential_files) > 1
           THEN last.loads = <<last.loads[1], credential_files[IndexAfterFirstLoad]>>
           ELSE last.loads = <<last.loads[1]>>

\* the rotation step of the last get_current_credentials, from the manager
\* the call found
RotationDue ==
    /\ last.pre.call_count >= calls_per_rotation
    /\ last.pre.credential_files # <<>>
RotatedIndex ==
    IF RotationDue
    THEN (last.pre.current_index + 1) % Len(last.pre.credential_files)
    ELSE last.pre.current_index

\* C25: one step of get_current_credentials: if call_count >=
\* calls_per_rotation and the eligible list is non-empty, current_index
\* becomes (current_index + 1) mod length and call_count becomes 0 before the
\* load; otherwise neither is changed by the rotation step, and if the load
\* at current_index succeeds the cursor is left where the rotation step put it.
C25_RotationStep ==
    last.op = "get_current_credentials" =>
        /\ call_count = IF RotationDue THEN 0 ELSE last.pre.call_count
        /\ last.loads # <<>> => last.loads[1] = credential_files[RotatedIndex + 1]
        /\ Len(last.loads) <= 1 => current_index = RotatedIndex
        /\ (last.ret.tag = "Some" /\ Len(last.loads) = 1) =>
               last.ret.file = Some(credential_files[RotatedIndex + 1])

\* C25 witness: the rotation wrapped around to the first file and its load
\* succeeded
C25_Witness ==
    /\ last.op = "get_current_credentials"
    /\ RotationDue
    /\ Len(last.pre.credential_files) >= 2
    /\ last.pre.current_index = Len(last.pre.credential_files) - 1
    /\ last.ret.tag = "Some"
    /\ last.loads = <<credential_files[1]>>
    /\ current_index = 0

----------------------------------------------------------------------------
(* Claims on the retry loops and the SSE responses (SpecService) *)

\* C26: increment_call_count is invoked exactly once per logical client
\* request, before credential selection: a request that needs k failover
\* attempts still advances call_count by 1, not by k.
C26_OneIncrementPerRequest ==
    (req.pc = "done" /\ req.kind \in {"non_streaming", "streaming", "fake_streaming"}) =>
        req.increments = 1

\* this step made a vendor call with the prepared credential, and the call
\* failed
VendorCallFailed ==
    /\ req.pc = "send"
    /\ Len(req'.log) = Len(req.log) + 1
    /\ req'.log[Len(req'.log)].file = req.creds[1]
    /\ req'.log[Len(req'.log)].outcome = "vendor_error"

\* the step recorded the error in the state of the credential that made the
\* call
ErrorRecorded == Contains(ErrorCodesOf(credential_states', req.creds[1]), 500)

\* C27: every failed vendor call is recorded against the credential that
\* made it: on each request path (non-streaming, streaming, fake-streaming),
\* when the vendor call fails, record_error is applied to that credential's
\* state before the request finishes.
C27_FailedCallRecorded == [][VendorCallFailed => ErrorRecorded]_vars

\* the request is in one of the two retry loops
InRetryLoop ==
    /\ req.pc \in {"send", "retry_prepare"}
    /\ req.kind \in {"non_streaming", "streaming"}

\* the attempts a request may make
AttemptsAllowed == IF max_retries = 0 THEN 1 ELSE max_retries

\* what is left of the loop: the attempts left, twice, and the preparation
\* of the next attempt
LoopMeasure(r) ==
    2 * (AttemptsAllowed - r.attempts) + (IF r.pc = "retry_prepare" THEN 1 ELSE 0)

AttemptsBounded ==
    (req.pc # "idle" /\ req.kind \in {"non_streaming", "streaming"}) =>
        /\ Len(req.log) <= AttemptsAllowed
        /\ req.attempts <= AttemptsAllowed

\* a turn of the loop makes at most one vendor call; it ends the loop with
\* a response or an error status, or it leaves less of the loop
LoopTurn ==
    InRetryLoop =>
        /\ Len(req'.log) <= Len(req.log) + 1
        /\ \/ /\ req'.pc \in {"done", "stream_task"}
              /\ req'.resp # None
              /\ req'.resp = Some(200) \/ req'.fail # ""
           \/ /\ req'.pc \in {"send", "retry_prepare"}
              /\ LoopMeasure(req') < LoopMeasure(req)
              /\ LoopMeasure(req') >= 0

\* C28: a logical streaming or non-streaming request makes at most
\* max_retries vendor attempts (one when max_retries is 0), its attempts are
\* strictly sequential, and its retry loop always ends with either a
\* response or a structured error once the attempts are used up or no
\* credential can be prepared.
C28_RetryLoopBoundedAndEnds == []AttemptsBounded /\ [][LoopTurn]_vars

\* C28 witness: a request that used up two attempts on failing vendor calls
C28_Witness ==
    /\ req.pc = "done"
    /\ req.kind \in {"non_streaming", "streaming"}
    /\ max_retries = 2
    /\ Len(req.log) = 2
    /\ req.fail = "attempts"
    /\ req.resp = Some(500)

----------------------------------------------------------------------------
(* Claims on chunks of several lines (SpecStream) *)

\* the transport chunk the step read from the wire
ChunkRead == SubSeq(sse.wire, 1, Len(sse.wire) - Len(sse'.wire))

\* n complete `data:` lines carrying JSON
DataLines(n) == Concat([i \in 1..n |-> DataLine])

\* the items the step made of the chunk
ItemsOfStep == SubSeq(sse'.items, Len(sse.items) + 1, Len(sse'.items))

\* C29: a transport chunk that carries several complete newline-delimited
\* `data:` lines produces one event per line, in order: no event is lost or
\* turned into an error because two vendor events arrived in the same read.
C29_OneEventPerLine ==
    [][\A n \in 1..MaxStreamEvents :
         (sse.pc = "loop" /\ Len(sse'.wire) < Len(sse.wire) /\ ChunkRead = DataLines(n))
            => ItemsOfStep = [i \in 1..n |-> OkItem]]_vars

----------------------------------------------------------------------------
(* Claims on the end of the SSE responses (SpecService) *)

\* an SSE response was opened for the request, its task is over and its
\* client stayed connected
SseResponseOver ==
    /\ req.pc = "done"
    /\ req.kind \in {"streaming", "fake_streaming"}
    /\ req.events # <<>>
    /\ ~req.stream_ended

\* C30: every SSE response whose client stays connected ends with exactly
\* one terminal [DONE] sentinel as its last event, on normal completion and
\* after an error event, for real streaming and for fake streaming, and no
\* event follows the sentinel.
C30_SseEndsWithOneDone ==
    SseResponseOver =>
        /\ req.events[Len(req.events)] = "[DONE]"
        /\ \A i \in 1..(Len(req.events) - 1) : req.events[i] # "[DONE]"

----------------------------------------------------------------------------
(* Claims on the scope of the lock (SpecLock) *)

\* the token refresh call or a call of onboard_user is being made for the
\* preparation of task t
InPrepareCalls(t) ==
    \/ task[t].pc = "selected" /\ task[t].prepared
    \/ task[t].pc \in {"refreshed", "onboard_post", "onboard_sleep"}

\* the task that refreshes or onboards holds the lock
HeldAcrossPrepareCalls == \A t \in Tasks : InPrepareCalls(t) => rwlock = Some(t)

\* meanwhile no other task selects a credential or records an outcome
OthersWaitForPrepareCalls ==
    \A t \in Tasks : InPrepareCalls(t) =>
        \A u \in Tasks \ {t} :
            task'[u] # task[u] =>
                /\ task'[u].pc \notin LockedPcs
                /\ mgr_vars' = mgr_vars
                /\ state_file' = state_file

\* the task that makes a vendor generate-content call does not hold the lock
NotHeldInVendorCall == \A t \in Tasks : task[t].pc = "send" => rwlock # Some(t)

\* C32: the exclusive lock is held by a request for the whole of its token
\* refresh and onboarding calls in its preparation, so that meanwhile no
\* other request can select a credential or record an outcome, and it is
\* never held during a vendor generate-content call.
C32_LockScopeAcrossNetworkCalls ==
    /\ [](HeldAcrossPrepareCalls /\ NotHeldInVendorCall)
    /\ [][OthersWaitForPrepareCalls]_vars

\* C32 witness: one task sleeps in the onboarding poll with the lock while
\* another, back from its vendor call, waits to record the outcome
C32_Witness ==
    \E t, u \in Tasks : /\ task # NoTasks
                        /\ task[t].pc = "onboard_sleep"
                        /\ rwlock = Some(t)
                        /\ task[u].pc = "record"

----------------------------------------------------------------------------
(* Claims on persistence (Spec) *)

StateChanges == {"record_error", "record_success", "set_credential_disabled"}

\* the state map a manager constructed now would load in initialize
Reloaded == LoadStates(EmptyMap, state_file)

\* C33: after each record_error, record_success or set_credential_disabled
\* that returns successfully, the state map stored in the state file equals
\* the in-memory state map, for any sequence of such operations;
\* re-initializing a manager from that file gives the same disabled flags,
\* error sets and eligible list.
C33_StateChangesPersisted ==
    last.op \in StateChanges =>
        /\ state_file # None
        /\ TomlFromStr(state_file[1]) = credential_states
        /\ DOMAIN Reloaded = DOMAIN credential_states
        /\ \A k \in DOMAIN credential_states :
              /\ Reloaded[k].disabled = credential_states[k].disabled
              /\ Reloaded[k].error_codes = credential_states[k].error_codes
        /\ DiscoverCredentialFiles(credentials_dir, Reloaded)
              = DiscoverCredentialFiles(credentials_dir, credential_states)
        /\ last.op = "set_credential_disabled" =>
              DiscoverCredentialFiles(credentials_dir, Reloaded) = credential_files

\* C33 witness: a state change on a map that holds a disabled credential, a
\* credential with two recorded errors and one with a last success
C33_Witness ==
    /\ last.op \in StateChanges
    /\ \E k \in DOMAIN credential_states : credential_states[k].disabled
    /\ \E k \in DOMAIN credential_states : Len(credential_states[k].error_codes) >= 2
    /\ \E k \in DOMAIN credential_states : credential_states[k].last_success # None
    /\ \E k \in DOMAIN credential_states : credential_states[k].last_success = None

----------------------------------------------------------------------------
(* Claims on what record_error leaves alone (Spec) *)

\* the step is a call of record_error or record_success
RecordingStep == last'.op \in {"record_error", "record_success"}

\* C34: record_error never disables or cools down a credential: for any
\* number of recorded errors, record_error (and record_success) leave the
\* credential's disabled flag, the eligible list, current_index and
\* call_count unchanged, and every credential file where a discovery finds
\* it, so an erroring credential stays selectable until
\* set_credential_disabled is called.
C34_RecordErrorDisablesNothing ==
    [][RecordingStep =>
         /\ \A f \in CredNames :
              /\ IsCredentialDisabled(credential_states', f)
                    = IsCredentialDisabled(credential_states, f)
              /\ (f \in credentials_dir') = (f \in credentials_dir)
         /\ UNCHANGED <<credential_files, current_index, call_count>>]_vars

\* C34 witness: record_error has recorded a second error code for a
\* credential that is still in the eligible list
C34_Witness ==
    /\ last.op = "record_error"
    /\ Len(ErrorCodesOf(credential_states, last.file[1])) >= 2
    /\ Len(last.pre_codes) = 1
    /\ \E i \in 1..Len(credential_files) : credential_files[i] = last.file[1]
    /\ last.file[1] \in Range(DiscoverCredentialFiles(credentials_dir, credential_states))

----------------------------------------------------------------------------
(* Claims on the order of rotation (SpecRotate) *)

\* the position of a credential in the eligible list, and the credential
\* after it in the cyclic order of the list
PositionOf(f) == CHOOSE i \in 1..Len(credential_files) : credential_files[i] = f
CyclicNext(f) == credential_files[(PositionOf(f) % Len(credential_files)) + 1]

\* the eligible list is in lexicographic order
ListIsLexicographic ==
    \A i, j \in 1..Len(credential_files) :
        i < j => LexLess(credential_files[i], credential_files[j])

\* a request is served by the credential of the request before it or by the
\* next one of the cyclic order
VisitedInCyclicOrder ==
    \A i \in 1..(Len(served) - 1) :
        served[i + 1] \in {served[i], CyclicNext(served[i])}

\* the requests of one turn of the rotation
RotationTurn == calls_per_rotation * Len(credential_files)

\* every credential serves in every RotationTurn consecutive requests
EveryCredentialRecurs ==
    \A start \in 1..(Len(served) - RotationTurn + 1) :
        \A f \in Range(credential_files) :
            \E i \in start..(start + RotationTurn - 1) : served[i] = f

\* C35: load is rotated over all credentials: with calls_per_rotation >= 1,
\* a fixed eligible list of loadable credentials and an unbounded sequence
\* of logical requests, every eligible credential is selected again and
\* again (at least once in every calls_per_rotation * n consecutive
\* requests), and credentials are visited in the cyclic lexicographic order
\* of the eligible list.
C35_LoadRotatesOverAll ==
    /\ ListIsLexicographic
    /\ VisitedInCyclicOrder
    /\ EveryCredentialRecurs

\* C35 witness: two credentials, two calls per rotation, and the rotation
\* has come back to the first credential
C35_Witness ==
    /\ Len(credential_files) = 2
    /\ calls_per_rotation = 2
    /\ Len(served) >= RotationTurn + 1
    /\ served[1] = credential_files[1]
    /\ served[2] = credential_files[2]
    /\ served[4] = credential_files[1]

----------------------------------------------------------------------------
(* Claims on credentials without a project id (SpecService) *)

\* the outcomes of a vendor generate-content call
VendorCallOutcomes == {"ok", "vendor_error"}

\* no attempt of the request called the vendor for a credential without a
\* project id
NoVendorCallWithoutProject ==
    req.pc # "idle" =>
        \A i \in 1..Len(req.log) :
            req.log[i].outcome \in VendorCallOutcomes => ProjectId(req.log[i].file) # None

\* an attempt of a retry loop with a credential without a project id makes
\* no vendor call and ends with the error "No project ID available"
NoProjectAttemptEnds400 ==
    (/\ req.pc = "send"
     /\ req.kind \in {"non_streaming", "streaming"}
     /\ ProjectId(req.creds[1]) = None)
        => /\ Len(req'.log) = Len(req.log) + 1
           /\ req'.log[Len(req'.log)].outcome \notin VendorCallOutcomes
           /\ req'.log[Len(req'.log)].error =
                 Some([message |-> "No project ID available",
                       type |-> "invalid_request_error", code |-> 400])
           /\ req'.status = Some(400)

\* C36: no vendor generate-content call is ever made for a credential that
\* has no project ID: such an attempt ends with the error "No project ID
\* available" (HTTP 400, type invalid_request_error) on the streaming and
\* non-streaming paths, before any request is sent.
C36_NoVendorCallWithoutProject ==
    []NoVendorCallWithoutProject /\ [][NoProjectAttemptEnds400]_vars

\* C36 witness: a streaming request was answered 400 after an attempt with a
\* credential without a project id
C36_Witness ==
    /\ req.pc = "done"
    /\ req.kind = "streaming"
    /\ req.resp = Some(400)
    /\ req.log # <<>>
    /\ ProjectId(req.log[Len(req.log)].file) = None
    /\ req.log[Len(req.log)].outcome = "no_project"

----------------------------------------------------------------------------
(* SpecCursor: the cursor under selections and changes of the eligible     *)
(* list.  An initialized manager is called with increment_call_count, the  *)
(* two selections and set_credential_disabled in any order, and credential *)
(* files are dropped into the directory while it runs.                     *)

InitCursor ==
    /\ credentials_dir \in SUBSET CredNames
    /\ content = [f \in CredNames |-> "ok"]
    /\ state_file = None
    /\ credential_states = EmptyMap
    /\ credential_files = DiscoverCredentialFiles(credentials_dir, EmptyMap)
    /\ current_index = 0
    /\ call_count = 0
    /\ calls_per_rotation \in 1..MaxCallsPerRotation
    /\ max_retries = DefaultMaxRetries
    /\ last = Last("initialize", None, None, <<>>, NoPre, RetNone, <<>>)
    /\ req = NoRequest
    /\ sse = NoStream
    /\ rwlock = None
    /\ task = NoTasks
    /\ api = NoApi
    /\ conv = NoConv
    /\ served = <<>>
    /\ onboard = NoOnboard

NextCursor ==
    \/ IncrementCallCount
    \/ CallGetCurrentCredentials
    \/ CallGetCredentialsWithRetry
    \/ \E f \in CredNames, d \in BOOLEAN : SetCredentialDisabled(f, d)
    \/ \E f \in CredNames : DropFile(f)

SpecCursor == InitCursor /\ [][NextCursor]_vars

----------------------------------------------------------------------------
(* Claims on the bounds of the cursor (SpecCursor) *)

\* C37: in every state reachable by any sequence of selections,
\* increment_call_count, set_credential_disabled calls and empty-list
\* re-discoveries, whenever the eligible list is non-empty, current_index is
\* below the length of the list at the moment the list is indexed: no
\* selection indexes out of range (panics) after the list shrinks or is
\* rebuilt.
C37_CursorWithinList ==
    last.op \in Selections => last.ret # RetPanic

----------------------------------------------------------------------------
(* Claims on what a streaming task records (SpecStream) *)

\* record_success has been called for the credential of the stream
SuccessRecorded ==
    /\ StreamFile \in DOMAIN credential_states
    /\ credential_states[StreamFile].last_success # None

\* C38: a streaming request records success for its credential only when
\* the vendor stream was consumed to its end without error; when the client
\* disconnects mid-stream the task stops forwarding events and records
\* neither a success nor a spurious clearing of earlier errors.
C38_SuccessOnlyForWholeStream ==
    (sse.pc = "finished" /\ SuccessRecorded) =>
        /\ ~sse.has_error
        /\ ~sse.stream_ended
        /\ sse.wire = <<>>

----------------------------------------------------------------------------
(* Claims on the file a request records its outcome under (SpecLock) *)

\* task t has the credential of an attempt and has not yet recorded all of
\* that attempt's outcome
AttemptInFlight(t) ==
    /\ task[t].prepared
    /\ task[t].pc \in {"selected", "refreshed", "onboard_post", "onboard_sleep",
                       "onboarded", "read_max_retries", "send", "record",
                       "record_locked"}

\* the file name a task carries is the file its credential was loaded from
NameIsSourceOfCredential ==
    \A t \in Tasks : AttemptInFlight(t) =>
        /\ task[t].creds # None
        /\ task[t].file_name = task[t].creds

\* the entries of the state map that a step changes or creates
ChangedKeys ==
    {k \in DOMAIN credential_states' :
        k \notin DOMAIN credential_states \/ credential_states'[k] # credential_states[k]}

\* a record_* step of a task writes no entry but that of its credential's
\* file
RecordsUnderSource ==
    \A t \in Tasks :
        (task[t].pc = "record_locked" /\ task'[t].pc = "recorded") =>
            /\ task[t].creds # None
            /\ ChangedKeys \subseteq {task[t].creds[1]}
            /\ task[t].creds[1] \in DOMAIN credential_states'

\* C39: for any interleaving of concurrent requests, the file name under
\* which a request records an error or a success is the file from which the
\* credential used by that very attempt was loaded, even if other requests
\* moved the shared cursor between the selection and the recording.
C39_OutcomeAttributedToSource ==
    []NameIsSourceOfCredential /\ [][RecordsUnderSource]_vars

\* a task is about to record while the cursor, moved by another task since
\* its selection, names another file
C39_Witness ==
    \E t \in Tasks :
        /\ task[t].pc = "record_locked"
        /\ task[t].creds # None
        /\ GetCurrentFileName(credential_files, current_index) # task[t].creds
        /\ GetCurrentFileName(credential_files, current_index) # None

----------------------------------------------------------------------------
(* SpecLockFair: the requests of SpecLock under the scheduling of the      *)
(* runtime: a task that can run does run, and the lock's queue is fair.    *)

\* a step of task t
TaskStep(t) ==
    \/ AcquireWrite(t)
    \/ TaskFakeLog(t)
    \/ TaskIncrementCallCount(t)
    \/ TaskSelect(t)
    \/ TaskRefresh(t)
    \/ TaskOnboardUser(t)
    \/ TaskOnboardPost(t)
    \/ TaskOnboardSleep(t)
    \/ ReleaseWrite(t)
    \/ TaskReadMaxRetries(t)
    \/ TaskSend(t)
    \/ TaskRecord(t)

SpecLockFair ==
    /\ SpecLock
    /\ \A t \in Tasks : /\ WF_vars(TaskStep(t))
                        /\ SF_vars(AcquireWrite(t))
                        /\ SF_vars(TaskReadMaxRetries(t))

----------------------------------------------------------------------------
(* Claims on deadlock freedom of the lock (SpecLockFair) *)

\* the places where a task asks for the lock
WaitingPcs == {"fake_log", "prepare", "record", "read_max_retries"}

\* no task asks for the lock while it holds it
NoReentrantRequest ==
    \A t \in Tasks : task[t].pc \in WaitingPcs => rwlock # Some(t)

\* a task that waits for the lock gets it
WaitingTaskAcquires ==
    \A t \in Tasks : (task[t].pc \in WaitingPcs) ~> (task[t].pc \notin WaitingPcs)

\* C40: no task ever requests the lock while it already holds it, and, every
\* outbound call returning, every acquisition is released after finitely
\* many steps; hence for any interleaving of concurrent requests every
\* request waiting for the lock eventually acquires it.
C40_LockIsDeadlockFree ==
    []NoReentrantRequest /\ WaitingTaskAcquires

====
